---------------------------- MODULE Spec2Model ----------------------------
(***************************************************************************)
(* HackMerlin solver: the clue store, the prompt planner, the word        *)
(* reconstructor (src/src/hackmerlin/core/prompt_generator.py), the low   *)
(* tier word builder (src/word_matcher.py) and the level loop with its    *)
(* backup strategy (src/src/hackmerlin/core/solver.py).                   *)
(*                                                                         *)
(* A word is a sequence of one-character strings.  A clue store is a      *)
(* record; a key that the Python dict does not hold is the empty value    *)
(* of its field (0, <<>> or NoLetter): the code reads every key with      *)
(* clues.get(key, '') and tests it with "not", so it cannot tell an       *)
(* absent key from an empty one.                                           *)
(***************************************************************************)
EXTENDS Integers, Sequences, FiniteSets, TLC

VARIABLES
    clues,              \* the clue store the operation at hand works on
    ret,                \* the last call of a PromptGenerator method and its result
    pc,                 \* where the solver stands: "start", "acquire", "reconstruct",
                        \* "submit", "backup" or "variations"
    questions_asked,    \* _solve_level: iterations of the acquisition loop so far
    best_word,          \* _solve_level: "unset", "None" or "word" (the guess itself
                        \* decides nothing: the game alone accepts or rejects it)
    use_llm,            \* word_matcher.config['use_llm']
    use_playwright,     \* GameAutomation.use_playwright (manual_mode is its negation)
    current_level,      \* GameAutomation.current_level
    merlin_responses,   \* HackMerlinSolver.merlin_responses: for each pair kept, the
                        \* level attempt that stored it
    automated,          \* _submit_with_retry: the branch taken at its entry
    attempt,            \* _submit_with_retry: index of the retry loop
    original_letter_count,  \* _backup_prompt_strategy
    backup_prompts,     \* _backup_prompt_strategy: the queue entries still to ask
    level_count,        \* run: levels started
    result,             \* what the last _solve_level returned
    trace               \* history of the level attempt, read by the properties only

(***************************************************************************)
(* Bounds of the model.                                                    *)
(***************************************************************************)
MaxLetterCount == 7     \* largest letter_count an answer can report
MaxFirstLen == 4        \* longest prefix an answer can report
MaxLastLen == 2         \* longest suffix an answer can report
MaxPins == 1            \* most letter_<i> keys in a store drawn as input
MaxLevels == 2          \* level attempts that may be under way or done
MaxResponses == 4       \* pairs merlin_responses can hold

MAX_QUESTIONS_PER_LEVEL == 10
MAX_RETRIES_PER_LEVEL == 10

Letters == {"a", "b"}
Placeholder == "?"
NoLetter == ""

\* Positions a letter_<i> key can name: one more than the largest word, so
\* that keys beyond letter_count occur.
MaxPos == MaxLetterCount + 1

Strs(n) == UNION {[1..k -> Letters] : k \in 0..n}

NoPins == [i \in 1..MaxPos |-> NoLetter]

EmptyStore ==
    [letter_count |-> 0,
     first_letters |-> <<>>,
     last_letters |-> <<>>,
     first_letters_backup |-> <<>>,
     last_letters_backup |-> <<>>,
     letters |-> NoPins]

\* The positions i for which the store holds a key letter_<i>.
PinnedPositions(c) == {i \in DOMAIN c.letters : c.letters[i] # NoLetter}

(***************************************************************************)
(* Prompts.  A prompt is the text the planner or the backup queue builds; *)
(* the record keeps what the text says: its kind, the number in it, and   *)
(* whether it carries the "what are " prefix of the rephrased retry.      *)
(***************************************************************************)
Prompt(kind, n) == [kind |-> kind, n |-> n, polite |-> FALSE]

HowManyLetters == Prompt("How many letters?", 0)
FirstFourLetters == Prompt("first letters?", 4)
LastThreeLetters == Prompt("last letters?", 3)
NthLetter(pos) == Prompt("the Nth letter?", pos)
None == Prompt("None", 0)
NameError == Prompt("NameError", 0)

(***************************************************************************)
(* PromptGenerator._get_strategic_prompt.  The last branch reads the name *)
(* missing_positions, which the function never binds (the list is called  *)
(* missing_indices): Python raises NameError there.                       *)
(***************************************************************************)
\* A planner that also counts the first position of the suffix as missing.
MissingIndicesOffByOne(c) ==
    LET a == Len(c.first_letters)
        b == Len(c.last_letters)
    IN {i \in (a + 1)..(c.letter_count - b + 1) : i \notin PinnedPositions(c)}

MissingIndices(c) ==
    LET a == Len(c.first_letters)
        b == Len(c.last_letters)
    IN {i \in (a + 1)..(c.letter_count - b) : i \notin PinnedPositions(c)}

\* A planner that asks for the suffix before the prefix.
GetStrategicPromptSuffixFirst(c) ==
    LET a == Len(c.first_letters)
        b == Len(c.last_letters)
    IN  IF c.letter_count = 0 THEN HowManyLetters
        ELSE IF c.last_letters = <<>> THEN LastThreeLetters
        ELSE IF c.first_letters = <<>> THEN FirstFourLetters
        ELSE IF a + b >= c.letter_count THEN None
        ELSE IF MissingIndices(c) # {} THEN NameError
        ELSE None

GetStrategicPrompt(c) ==
    LET a == Len(c.first_letters)
        b == Len(c.last_letters)
    IN  IF c.letter_count = 0 THEN HowManyLetters
        ELSE IF c.first_letters = <<>> THEN FirstFourLetters
        ELSE IF c.last_letters = <<>> THEN LastThreeLetters
        ELSE IF a + b >= c.letter_count THEN None
        ELSE IF MissingIndices(c) # {} THEN NameError
        ELSE None

\* PromptGenerator.get_next_prompt: the except clause turns every exception
\* of _get_strategic_prompt into the letter-count question.
GetNextPrompt(c) ==
    IF c = EmptyStore THEN HowManyLetters
    ELSE LET r == GetStrategicPrompt(c)
         IN IF r = NameError THEN HowManyLetters ELSE r

(***************************************************************************)
(* PromptGenerator.has_sufficient_letters.                                 *)
(***************************************************************************)
Max(x, y) == IF x >= y THEN x ELSE y

Min(x, y) == IF x <= y THEN x ELSE y

\* A predicate that takes the overlap of prefix and suffix off twice.
HasSufficientLettersDoubleCounted(c) ==
    LET a == Len(c.first_letters)
        b == Len(c.last_letters)
        overlap == Max(0, a + b - c.letter_count)
        unique_letters == a + b - 2 * overlap
        missing_cnt == c.letter_count - unique_letters
        individual_letters == Cardinality(PinnedPositions(c))
    IN  IF c.letter_count = 0 THEN FALSE
        ELSE IF unique_letters >= c.letter_count THEN TRUE
        ELSE individual_letters >= missing_cnt

\* A predicate that wants one pinned letter more than there are gaps.
HasSufficientLettersStrict(c) ==
    LET a == Len(c.first_letters)
        b == Len(c.last_letters)
        overlap == Max(0, a + b - c.letter_count)
        unique_letters == a + b - overlap
        missing_cnt == c.letter_count - unique_letters
        individual_letters == Cardinality(PinnedPositions(c))
    IN  IF c.letter_count = 0 THEN FALSE
        ELSE IF unique_letters >= c.letter_count THEN TRUE
        ELSE individual_letters > missing_cnt

HasSufficientLetters(c) ==
    LET a == Len(c.first_letters)
        b == Len(c.last_letters)
        overlap == Max(0, a + b - c.letter_count)
        unique_letters == a + b - overlap
        missing_cnt == c.letter_count - unique_letters
        individual_letters == Cardinality(PinnedPositions(c))
    IN  IF c.letter_count = 0 THEN FALSE
        ELSE IF unique_letters >= c.letter_count THEN TRUE
        ELSE individual_letters >= missing_cnt

\* The variant of src/prompt_generator.py: no overlap adjustment, and the
\* count of keys starting with 'letter_' takes in the 'letter_count' key,
\* which is in the store whenever this line is reached.
HasSufficientLettersTopLevel(c) ==
    LET a == Len(c.first_letters)
        b == Len(c.last_letters)
        missing_count == c.letter_count - a - b
        individual_letters == Cardinality(PinnedPositions(c)) + 1
    IN  IF c.letter_count = 0 THEN FALSE
        ELSE IF a + b >= c.letter_count THEN TRUE
        ELSE individual_letters >= missing_count

(***************************************************************************)
(* PromptGenerator.reconstruct_word, one definition per priority step.    *)
(***************************************************************************)
\* A choice that takes the backup value only when the primary one is missing.
PreferredPrimary(backup, primary) == IF primary # <<>> THEN primary ELSE backup

\* "clues.get('first_letters_backup') or clues.get('first_letters', '')"
Preferred(backup, primary) == IF backup # <<>> THEN backup ELSE primary

FillFirstFour(word, first_letters) ==
    IF Len(first_letters) = 4
    THEN [i \in DOMAIN word |-> IF i <= 4 THEN first_letters[i] ELSE word[i]]
    ELSE word

FillLastLetter(word, last_letters) ==
    IF Len(last_letters) = 1
    THEN [word EXCEPT ![Len(word)] = last_letters[1]]
    ELSE word

FillFirstThree(word, first_letters) ==
    IF Len(first_letters) = 3
    THEN [i \in DOMAIN word |->
            IF i <= 3 /\ (word[i] = Placeholder \/ Len(first_letters) # 4)
            THEN first_letters[i] ELSE word[i]]
    ELSE word

FillRemainingLast(word, last_letters) ==
    [i \in DOMAIN word |->
        LET k == i - (Len(word) - Len(last_letters))
        IN IF k >= 1 /\ k <= Len(last_letters) /\ word[i] = Placeholder
           THEN last_letters[k] ELSE word[i]]

\* A reconstructor that forgets to convert the 1-indexed key to an index.
FillIndividualShifted(word, letters) ==
    [i \in DOMAIN word |->
        IF i - 1 \in DOMAIN letters /\ letters[i - 1] # NoLetter
        THEN letters[i - 1] ELSE word[i]]

\* A reconstructor that writes a pinned letter only where the word is blank.
FillIndividualIfBlank(word, letters) ==
    [i \in DOMAIN word |->
        IF i \in DOMAIN letters /\ letters[i] # NoLetter /\ word[i] = Placeholder
        THEN letters[i] ELSE word[i]]

FillIndividual(word, letters) ==
    [i \in DOMAIN word |->
        IF i \in DOMAIN letters /\ letters[i] # NoLetter
        THEN letters[i] ELSE word[i]]

ReconstructWord(c) ==
    LET first_letters == Preferred(c.first_letters_backup, c.first_letters)
        last_letters == Preferred(c.last_letters_backup, c.last_letters)
        blank == [i \in 1..c.letter_count |-> Placeholder]
    IN  IF c.letter_count = 0 THEN <<>>
        ELSE FillIndividual(
                FillRemainingLast(
                    FillFirstThree(
                        FillLastLetter(
                            FillFirstFour(blank, first_letters),
                            last_letters),
                        first_letters),
                    last_letters),
                c.letters)

(***************************************************************************)
(* WordMatcher._direct_concatenation (src/word_matcher.py), the low tier  *)
(* strategy behind ResourceManager.find_best_word.  NoWord is Python's    *)
(* None.                                                                   *)
(***************************************************************************)
NoWord == <<>>

common_letters == <<"a", "e", "i", "o", "u", "r", "s", "t", "n", "l">>

\* A concatenation that leaves the positions without a clue unfilled.
DirectConcatenationNoFill(c) ==
    LET n == c.letter_count
        a == Len(c.first_letters)
        b == Len(c.last_letters)
        withFirst == [i \in 1..n |-> IF i <= a THEN c.first_letters[i]
                                     ELSE Placeholder]
        withLast == [i \in 1..n |->
                        IF i - (n - b) >= 1 /\ i - (n - b) <= b
                        THEN c.last_letters[i - (n - b)] ELSE withFirst[i]]
        withPins == FillIndividual(withLast, c.letters)
    IN  IF n = 0 THEN NoWord
        ELSE withPins

DirectConcatenation(c) ==
    LET n == c.letter_count
        a == Len(c.first_letters)
        b == Len(c.last_letters)
        withFirst == [i \in 1..n |-> IF i <= a THEN c.first_letters[i]
                                     ELSE Placeholder]
        withLast == [i \in 1..n |->
                        IF i - (n - b) >= 1 /\ i - (n - b) <= b
                        THEN c.last_letters[i - (n - b)] ELSE withFirst[i]]
        withPins == FillIndividual(withLast, c.letters)
    IN  IF n = 0 THEN NoWord
        ELSE [i \in 1..n |->
                IF withPins[i] = Placeholder
                THEN common_letters[((i - 1) % Len(common_letters)) + 1]
                ELSE withPins[i]]

FindBestWord(c) == DirectConcatenation(c)

(***************************************************************************)
(* Answers of the oracle.  An answer is kept as what the solver can tell  *)
(* of its text: whether it is empty, whether it holds one of the denial   *)
(* phrases of _is_denial_response, and what the extractors of              *)
(* ResponseParser find in it (a store holding the extracted clues).       *)
(***************************************************************************)
Response(found, denial) == [empty |-> FALSE, denial |-> denial, found |-> found]

NoResponse == [empty |-> TRUE, denial |-> FALSE, found |-> EmptyStore]
Silence == Response(EmptyStore, FALSE)
Denial == Response(EmptyStore, TRUE)

\* A denial test that takes every non-empty answer for a refusal.
IsDenialResponseAny(r) == ~r.empty

IsDenialResponse(r) == ~r.empty /\ r.denial

\* f"what are {prompt}"
PolitePrompt(p) == [p EXCEPT !.polite = TRUE]

\* Whether the text of _ordinal(n) contains one of '1st', ..., '8th'.
OrdinalListed(n) ==
    LET d == n % 10
        teen == (n % 100) >= 10 /\ (n % 100) <= 20
    IN (d >= 4 /\ d <= 8) \/ (d >= 1 /\ d <= 3 /\ ~teen)

\* The branch parse_response_with_context takes on the text of the prompt.
PromptContext(p) ==
    IF p.kind = "How many letters?" THEN "letter_count"
    ELSE IF p.kind = "first letters?" THEN "first_letters"
    ELSE IF p.kind = "last letters?" THEN "last_letters"
    ELSE IF p.kind = "the Nth letter?" /\ OrdinalListed(p.n) THEN "individual"
    ELSE "all"

ParseResponseWithContext(r, p) ==
    LET ctx == PromptContext(p)
    IN  IF ctx = "letter_count"
            THEN [EmptyStore EXCEPT !.letter_count = r.found.letter_count]
        ELSE IF ctx = "first_letters"
            THEN [EmptyStore EXCEPT !.first_letters = r.found.first_letters]
        ELSE IF ctx = "last_letters"
            THEN [EmptyStore EXCEPT !.last_letters = r.found.last_letters]
        ELSE IF ctx = "individual"
            THEN [EmptyStore EXCEPT !.letters = r.found.letters]
        ELSE r.found

\* dict.update: the keys of new_clues replace or extend those of clues.
Update(c, new) ==
    [c EXCEPT
        !.letter_count = IF new.letter_count # 0 THEN new.letter_count ELSE @,
        !.first_letters = IF new.first_letters # <<>> THEN new.first_letters ELSE @,
        !.last_letters = IF new.last_letters # <<>> THEN new.last_letters ELSE @,
        !.letters = [i \in DOMAIN @ |->
                        IF new.letters[i] # NoLetter THEN new.letters[i] ELSE @[i]]]

\* The texts the oracle is taken to answer with: a letter count out of
\* LetterCounts, a prefix of MaxFirstLen letters or one less, a suffix of up
\* to MaxLastLen letters, or the letter at the position asked.  Prefixes and
\* single letters are spelled with "a" alone, suffixes start with "a".
LetterCounts == {3, 7}

FirstAnswers ==
    {s \in Strs(MaxFirstLen) :
        Len(s) >= MaxFirstLen - 1 /\ \A i \in DOMAIN s : s[i] = "a"}

LastAnswers == {s \in Strs(MaxLastLen) : s # <<>> /\ s[1] = "a"}

Clue(found) == Response(found, FALSE)

OnTopic(p) ==
    LET ctx == PromptContext(p)
    IN  IF ctx = "letter_count"
            THEN {[EmptyStore EXCEPT !.letter_count = n] : n \in LetterCounts}
        ELSE IF ctx = "first_letters"
            THEN {[EmptyStore EXCEPT !.first_letters = s] : s \in FirstAnswers}
        ELSE IF ctx = "last_letters"
            THEN {[EmptyStore EXCEPT !.last_letters = s] : s \in LastAnswers}
        ELSE {[EmptyStore EXCEPT !.letters[p.n] = "a"]}

Answers(p) == {NoResponse, Silence, Denial} \cup {Clue(x) : x \in OnTopic(p)}

(***************************************************************************)
(* Answer texts.  A text is the sequence of its whitespace-separated      *)
(* tokens (str.split()), a token the sequence of its characters.          *)
(***************************************************************************)
UpperCase == <<"A", "B", "C", "D", "E", "F", "G", "H", "I", "J", "K", "L", "M", "N", "O", "P", "Q", "R", "S", "T", "U", "V", "W", "X", "Y", "Z">>
LowerCase == <<"a", "b", "c", "d", "e", "f", "g", "h", "i", "j", "k", "l", "m", "n", "o", "p", "q", "r", "s", "t", "u", "v", "w", "x", "y", "z">>
DigitChars == <<"0", "1", "2", "3", "4", "5", "6", "7", "8", "9">>

\* str.lower()
Lower(ch) ==
    IF \E i \in DOMAIN UpperCase : UpperCase[i] = ch
    THEN LowerCase[CHOOSE i \in DOMAIN UpperCase : UpperCase[i] = ch]
    ELSE ch

LowerToken(token) == [i \in DOMAIN token |-> Lower(token[i])]
LowerText(text) == [i \in DOMAIN text |-> LowerToken(text[i])]

\* str(i) for 0 <= i <= 99
Str(i) ==
    IF i < 10 THEN <<DigitChars[i + 1]>>
    ELSE <<DigitChars[(i \div 10) + 1], DigitChars[(i % 10) + 1]>>

\* "pat in s"
Contains(s, pat) ==
    \E i \in 0..(Len(s) - Len(pat)) : SubSeq(s, i + 1, i + Len(pat)) = pat

StartsWith(s, pat) == Len(pat) <= Len(s) /\ SubSeq(s, 1, Len(pat)) = pat

EndsWith(s, pat) ==
    Len(pat) <= Len(s) /\ SubSeq(s, Len(s) - Len(pat) + 1, Len(s)) = pat

\* The text itself: its tokens with one blank between them.
RECURSIVE Joined(_)
Joined(text) ==
    IF text = <<>> THEN <<>>
    ELSE IF Len(text) = 1 THEN text[1]
    ELSE text[1] \o <<" ">> \o Joined(Tail(text))

\* words.index(word), counted from 1; 0 stands for ValueError.
Index(words, word) ==
    IF \E i \in DOMAIN words : words[i] = word
    THEN CHOOSE i \in DOMAIN words :
            words[i] = word /\ \A j \in 1..(i - 1) : words[j] # word
    ELSE 0

IsLetter(ch) ==
    \E i \in DOMAIN UpperCase : ch = UpperCase[i] \/ ch = LowerCase[i]

IsDigit(ch) == \E i \in DOMAIN DigitChars : ch = DigitChars[i]

\* re.sub(r'[^a-zA-Z]', '', s)
OnlyLetters(s) == SelectSeq(s, IsLetter)

(***************************************************************************)
(* ResponseParser._extract_letter_count.  0 stands for None.              *)
(***************************************************************************)
\* The keys of word_to_number in order; the value of the k-th key is k.
word_to_number ==
    <<<<"o", "n", "e">>,
      <<"t", "w", "o">>,
      <<"t", "h", "r", "e", "e">>,
      <<"f", "o", "u", "r">>,
      <<"f", "i", "v", "e">>,
      <<"s", "i", "x">>,
      <<"s", "e", "v", "e", "n">>,
      <<"e", "i", "g", "h", "t">>,
      <<"n", "i", "n", "e">>,
      <<"t", "e", "n">>>>

letter == <<"l", "e", "t", "t", "e", "r">>

\* any('letter' in w for w in words[lo:hi]), with lo and hi counted from 1
\* and both included
LetterNearby(words, lo, hi) ==
    \E j \in DOMAIN words : j >= lo /\ j <= hi /\ Contains(words[j], letter)

\* The test under "for word, number in word_to_number.items()".
NumberWordFound(response_lower, k) ==
    LET word == word_to_number[k]
        word_index == Index(response_lower, word)
    IN  /\ Contains(Joined(response_lower), word)
        /\ word_index # 0
        /\ \/ StartsWith(Joined(response_lower), word)
           \/ LetterNearby(response_lower, word_index - 2, word_index + 2)

\* The test under "for i in range(1, 11)".
DigitFound(response_lower, i) ==
    /\ Contains(Joined(response_lower), Str(i))
    /\ \E j \in DOMAIN response_lower :
        /\ Contains(response_lower[j], Str(i))
        /\ \/ LetterNearby(response_lower, j - 3, j + 3)
           \/ response_lower[j] = Str(i)

ExtractLetterCount(response) ==
    LET response_lower == LowerText(response)
        by_word == {k \in DOMAIN word_to_number :
                        NumberWordFound(response_lower, k)}
        by_digit == {i \in 1..10 : DigitFound(response_lower, i)}
    IN  IF by_word # {} THEN CHOOSE k \in by_word : \A m \in by_word : k <= m
        ELSE IF by_digit # {}
        THEN CHOOSE i \in by_digit : \A m \in by_digit : i <= m
        ELSE 0

(***************************************************************************)
(* ResponseParser._extract_first_letters and _extract_last_letters.  The  *)
(* patterns are searched without regard to case; \s+ between two parts of *)
(* a pattern is the gap between two tokens.  <<>> stands for no match.    *)
(***************************************************************************)
Quotes == {"'", "\""}

Token(text, i) == IF i \in DOMAIN text THEN text[i] ELSE <<>>

TokenLower(text, i) == LowerToken(Token(text, i))

\* The text from its i-th token on.
Rest(text, i) ==
    IF i \in DOMAIN text THEN Joined(SubSeq(text, i, Len(text))) ELSE <<>>

\* Length of the run of letters of s that starts at index i.
RECURSIVE LetterRun(_, _)
LetterRun(s, i) ==
    IF i > Len(s) \/ ~IsLetter(s[i]) THEN 0 ELSE 1 + LetterRun(s, i + 1)

\* [\'"]([a-zA-Z]+)[\'"] at the head of a token
Quoted(token) ==
    LET n == LetterRun(token, 2)
    IN  IF /\ token # <<>>
           /\ token[1] \in Quotes
           /\ n >= 1
           /\ Len(token) >= n + 2
           /\ token[n + 2] \in Quotes
        THEN SubSeq(token, 2, n + 1) ELSE <<>>

\* [\\"\']?([A-Z]+) at the head of a token
OptionallyQuoted(token) ==
    IF token # <<>> /\ IsLetter(token[1])
    THEN SubSeq(token, 1, LetterRun(token, 1))
    ELSE IF /\ Len(token) >= 2
            /\ token[1] \in Quotes \cup {"\\"}
            /\ IsLetter(token[2])
    THEN SubSeq(token, 2, 1 + LetterRun(token, 2))
    ELSE <<>>

\* str.replace(pat, '')
RECURSIVE Remove(_, _)
Remove(s, pat) ==
    IF Len(s) < Len(pat) THEN s
    ELSE IF StartsWith(s, pat) THEN Remove(SubSeq(s, Len(pat) + 1, Len(s)), pat)
    ELSE <<s[1]>> \o Remove(Tail(s), pat)

\* A cleaning that keeps the case of the letters.
CleanLettersKeepCase(letters_group) ==
    (OnlyLetters(
        Remove(Remove(letters_group, <<",", " ", "a", "n", "d">>), <<" ", "a", "n", "d", " ">>)))

\* letters_group.replace(', and', '').replace(' and ', ''), then the letters
\* alone, in lower case
CleanLetters(letters_group) ==
    LowerToken(OnlyLetters(
        Remove(Remove(letters_group, <<",", " ", "a", "n", "d">>), <<" ", "a", "n", "d", " ">>)))

\* The group of re.search: that of the leftmost token where the pattern
\* matches.
Leftmost(text, Group(_, _)) ==
    LET hits == {i \in DOMAIN text : Group(text, i) # <<>>}
    IN  IF hits = {} THEN <<>>
        ELSE Group(text, CHOOSE i \in hits : \A j \in hits : i <= j)

w_with == <<"w", "i", "t", "h">>
w_are == <<"a", "r", "e">>
w_ar == <<"a", "r">>
w_of == <<"o", "f">>
w_the == <<"t", "h", "e">>
w_password == <<"p", "a", "s", "s", "w", "o", "r", "d">>
w_letters == <<"l", "e", "t", "t", "e", "r", "s">>

\* "<head>\s+with\s+" and a quoted or optionally quoted word
WithWord(text, i, heads, Word(_)) ==
    IF /\ \E h \in heads : EndsWith(TokenLower(text, i), h)
       /\ TokenLower(text, i + 1) = w_with
    THEN Word(Token(text, i + 2)) ELSE <<>>

AllOf(token, Class(_)) ==
    token # <<>> /\ \A j \in DOMAIN token : Class(token[j])

IsWordChar(ch) == IsLetter(ch) \/ IsDigit(ch) \/ ch = "_"

\* "<head>\s+(\d+)\s+letters?\s+are?\s+" (counted) or
\* "<head>\s+letters?\s+are?\s+", and a quoted word
AreQuoted(text, i, head, counted) ==
    LET k == IF counted THEN i + 2 ELSE i + 1
    IN  IF /\ EndsWith(TokenLower(text, i), head)
           /\ counted => AllOf(Token(text, i + 1), IsDigit)
           /\ TokenLower(text, k) \in {letter, w_letters}
           /\ TokenLower(text, k + 1) \in {w_ar, w_are}
        THEN Quoted(Token(text, k + 2)) ELSE <<>>

\* "<head>\s+(?:\d+|\w+)\s+letters?\s+(?:of\s+the\s+password\s+)?are\s+(.+)"
\* (counted) or "<head>\s+letters?\s+(?:of\s+the\s+password\s+)?are\s+(.+)"
AreRest(text, i, head, counted) ==
    LET k == IF counted THEN i + 2 ELSE i + 1
    IN  IF /\ EndsWith(TokenLower(text, i), head)
           /\ counted => AllOf(Token(text, i + 1), IsWordChar)
           /\ TokenLower(text, k) \in {letter, w_letters}
        THEN IF /\ TokenLower(text, k + 1) = w_of
                /\ TokenLower(text, k + 2) = w_the
                /\ TokenLower(text, k + 3) = w_password
                /\ TokenLower(text, k + 4) = w_are
                /\ Rest(text, k + 5) # <<>>
             THEN Rest(text, k + 5)
             ELSE IF TokenLower(text, k + 1) = w_are THEN Rest(text, k + 2)
             ELSE <<>>
        ELSE <<>>

RECURSIVE SkipBlanks(_, _)
SkipBlanks(s, i) ==
    IF i <= Len(s) /\ s[i] = " " THEN SkipBlanks(s, i + 1) ELSE i

\* "[A-Z]+(?:<sep>\s*[A-Z]+)*\.?$" from index i of s; without blanks,
\* "[A-Z]+(?:<sep>[A-Z]+)*\.?$"
RECURSIVE ListFrom(_, _, _, _)
ListFrom(s, i, sep, blanks) ==
    LET j == i + LetterRun(s, i)
    IN  /\ j > i
        /\ \/ j > Len(s)
           \/ j = Len(s) /\ s[j] = "."
           \/ /\ j < Len(s)
              /\ s[j] = sep
              /\ ListFrom(s, IF blanks THEN SkipBlanks(s, j + 1) ELSE j + 1,
                          sep, blanks)

\* "[A-Z](?:\.\.\.\s*[A-Z])*\.*$" from index i of s
RECURSIVE DottedFrom(_, _)
DottedFrom(s, i) ==
    /\ i <= Len(s)
    /\ IsLetter(s[i])
    /\ \/ \A j \in (i + 1)..Len(s) : s[j] = "."
       \/ /\ i + 3 <= Len(s)
          /\ SubSeq(s, i + 1, i + 3) = <<".", ".", ".">>
          /\ DottedFrom(s, SkipBlanks(s, i + 4))

\* A pattern anchored at both ends has the whole text as its group.
Whole(text, matches) == IF matches THEN Joined(text) ELSE <<>>

\* "for pattern in patterns": the letters of the first pattern whose group,
\* cleaned, is not empty
FirstClean(groups) ==
    LET hits == {k \in DOMAIN groups : CleanLetters(groups[k]) # <<>>}
    IN  IF hits = {} THEN <<>>
        ELSE CleanLetters(groups[CHOOSE k \in hits : \A j \in hits : k <= j])

w_first == <<"f", "i", "r", "s", "t">>
w_last == <<"l", "a", "s", "t">>

ExtractFirstLetters(response) ==
    FirstClean(<<
        Leftmost(response, LAMBDA t, i : WithWord(t, i, {<<"s", "t", "a", "r", "t">>, <<"s", "t", "a", "r", "t", "s">>}, Quoted)),
        Leftmost(response, LAMBDA t, i : WithWord(t, i, {<<"b", "e", "g", "i", "n">>, <<"b", "e", "g", "i", "n", "s">>}, Quoted)),
        Leftmost(response, LAMBDA t, i : AreQuoted(t, i, w_first, TRUE)),
        Leftmost(response, LAMBDA t, i : AreQuoted(t, i, w_first, FALSE)),
        Leftmost(response, LAMBDA t, i : AreRest(t, i, w_first, TRUE)),
        Leftmost(response, LAMBDA t, i : AreRest(t, i, w_first, FALSE)),
        Leftmost(response, LAMBDA t, i : AreRest(t, i, w_first, TRUE)),
        Leftmost(response, LAMBDA t, i : AreRest(t, i, w_first, FALSE)),
        Quoted(Token(response, 1)),
        Whole(response, ListFrom(Joined(response), 1, "-", FALSE)),
        Whole(response, /\ Joined(response) # <<>>
                        /\ AllOf(Joined(response), IsLetter)),
        Whole(response, DottedFrom(Joined(response), 1)) >>)

ExtractLastLetters(response) ==
    FirstClean(<<
        Leftmost(response, LAMBDA t, i : WithWord(t, i, {<<"e", "n", "d">>, <<"e", "n", "d", "s">>}, Quoted)),
        Leftmost(response, LAMBDA t, i : AreQuoted(t, i, w_last, TRUE)),
        Leftmost(response, LAMBDA t, i : AreQuoted(t, i, w_last, FALSE)),
        Leftmost(response, LAMBDA t, i : WithWord(t, i, {<<"f", "i", "n", "i", "s", "h", "e">>, <<"f", "i", "n", "i", "s", "h", "e", "s">>}, Quoted)),
        Leftmost(response,
                 LAMBDA t, i : WithWord(t, i, {<<"e", "n", "d">>, <<"e", "n", "d", "s">>}, OptionallyQuoted)),
        Leftmost(response,
                 LAMBDA t, i : WithWord(t, i, {<<"e", "n", "d">>, <<"e", "n", "d", "s">>},
                                        LAMBDA tok : SubSeq(tok, 1, LetterRun(tok, 1)))),
        Leftmost(response, LAMBDA t, i : AreRest(t, i, w_last, TRUE)),
        Leftmost(response, LAMBDA t, i : AreRest(t, i, w_last, FALSE)),
        Whole(response, ListFrom(Joined(response), 1, ",", TRUE)),
        Whole(response, /\ Joined(response) # <<>>
                        /\ Joined(response)[Len(Joined(response))] # "."
                        /\ ListFrom(Joined(response), 1, ",", TRUE)) >>)

(***************************************************************************)
(* ResponseParser._extract_individual_letters.  Every pattern is searched *)
(* in the lower-cased response, and every pattern that matches writes the *)
(* key of its own leftmost match, a later pattern over an earlier one.    *)
(***************************************************************************)
\* The keys of the second word_to_number in order; the k-th has value k.
ordinal_to_number ==
    <<<<"f", "i", "r", "s", "t">>,
      <<"s", "e", "c", "o", "n", "d">>,
      <<"t", "h", "i", "r", "d">>,
      <<"f", "o", "u", "r", "t", "h">>,
      <<"f", "i", "f", "t", "h">>,
      <<"s", "i", "x", "t", "h">>,
      <<"s", "e", "v", "e", "n", "t", "h">>,
      <<"e", "i", "g", "h", "t", "h">>,
      <<"n", "i", "n", "t", "h">>,
      <<"t", "e", "n", "t", "h">>>>

w_is == <<"i", "s">>
w_position == <<"p", "o", "s", "i", "t", "i", "o", "n">>

NoMatch == [pos |-> 0, letter |-> NoLetter]

\* int(position_str)
RECURSIVE ToInt(_)
ToInt(digits) ==
    IF digits = <<>> THEN 0
    ELSE 10 * ToInt(SubSeq(digits, 1, Len(digits) - 1))
         + (CHOOSE d \in 0..9 : DigitChars[d + 1] = digits[Len(digits)])

RECURSIVE TrailingDigits(_)
TrailingDigits(s) ==
    IF s = <<>> \/ ~IsDigit(s[Len(s)]) THEN <<>>
    ELSE TrailingDigits(SubSeq(s, 1, Len(s) - 1)) \o <<s[Len(s)]>>

\* "(\d+)(?:st|nd|rd|th)" at the end of a token; with exact, the token is
\* nothing else.  The digits, or <<>>.
NumericOrdinal(token, exact) ==
    LET body == SubSeq(token, 1, Len(token) - 2)
    IN  IF /\ \E suffix \in {<<"s", "t">>, <<"n", "d">>, <<"r", "d">>, <<"t", "h">>} : EndsWith(token, suffix)
           /\ TrailingDigits(body) # <<>>
           /\ exact => TrailingDigits(body) = body
        THEN TrailingDigits(body) ELSE <<>>

\* "(first|second|...|tenth)" at the end of a token; its number, or 0.
WordOrdinal(token, exact) ==
    LET hits == {k \in DOMAIN ordinal_to_number :
                    IF exact THEN token = ordinal_to_number[k]
                    ELSE EndsWith(token, ordinal_to_number[k])}
    IN  IF hits = {} THEN 0 ELSE CHOOSE k \in hits : TRUE

\* [\'"]([a-zA-Z])[\'"] at the head of a token
QuotedLetter(token) ==
    IF /\ Len(token) >= 3
       /\ token[1] \in Quotes
       /\ IsLetter(token[2])
       /\ token[3] \in Quotes
    THEN token[2] ELSE NoLetter

\* ([a-zA-Z])\.? at the head of a token
BareLetter(token) ==
    IF token # <<>> /\ IsLetter(token[1]) THEN token[1] ELSE NoLetter

\* "letter\s+is\s+" or, where the pattern has the optional group,
\* "letter\s+(?:of\s+the\s+password\s+)?is\s+", from token k on, and the
\* letter after it
LetterIs(text, k, optional_group, Which(_)) ==
    IF Token(text, k) # letter THEN NoLetter
    ELSE IF /\ optional_group
            /\ Token(text, k + 1) = w_of
            /\ Token(text, k + 2) = w_the
            /\ Token(text, k + 3) = w_password
    THEN IF Token(text, k + 4) = w_is
         THEN Which(Token(text, k + 5)) ELSE NoLetter
    ELSE IF Token(text, k + 1) = w_is
         THEN Which(Token(text, k + 2)) ELSE NoLetter

Match(position, found) ==
    IF found = NoLetter THEN NoMatch ELSE [pos |-> position, letter |-> found]

\* "(\d+)(?:st|nd|rd|th)\s+letter\s+is\s+<letter>", with_the after "the\s+"
NumericOrdinalLetter(text, i, with_the, Which(_)) ==
    LET k == IF with_the THEN i + 1 ELSE i
        digits == NumericOrdinal(Token(text, k), with_the)
    IN  IF /\ with_the => EndsWith(Token(text, i), w_the)
           /\ digits # <<>>
        THEN Match(ToInt(digits), LetterIs(text, k + 1, FALSE, Which))
        ELSE NoMatch

\* "(first|...|tenth)\s+letter\s+(?:of\s+the\s+password\s+)?is\s+<letter>",
\* with_the after "the\s+"
WordOrdinalLetter(text, i, with_the, Which(_)) ==
    LET k == IF with_the THEN i + 1 ELSE i
        number == WordOrdinal(Token(text, k), with_the)
    IN  IF /\ with_the => EndsWith(Token(text, i), w_the)
           /\ number # 0
        THEN Match(number, LetterIs(text, k + 1, TRUE, Which))
        ELSE NoMatch

\* "<head>\s+(\d+)\s+is\s+[\'"]([a-zA-Z])[\'"]"
NumberedLetter(text, i, head) ==
    IF /\ EndsWith(Token(text, i), head)
       /\ AllOf(Token(text, i + 1), IsDigit)
       /\ Token(text, i + 2) = w_is
    THEN Match(ToInt(Token(text, i + 1)), QuotedLetter(Token(text, i + 3)))
    ELSE NoMatch

\* The match of re.search: that of the leftmost token where the pattern
\* matches.
LeftmostMatch(text, Hit(_, _)) ==
    LET hits == {i \in DOMAIN text : Hit(text, i) # NoMatch}
    IN  IF hits = {} THEN NoMatch
        ELSE Hit(text, CHOOSE i \in hits : \A j \in hits : i <= j)

\* The keys letter_<pos> as a function from their positions.
ExtractIndividualLetters(response) ==
    LET response_lower == LowerText(response)
        matches == <<
            LeftmostMatch(response_lower,
                LAMBDA t, i : NumericOrdinalLetter(t, i, FALSE, QuotedLetter)),
            LeftmostMatch(response_lower,
                LAMBDA t, i : NumericOrdinalLetter(t, i, TRUE, QuotedLetter)),
            LeftmostMatch(response_lower,
                LAMBDA t, i : NumberedLetter(t, i, letter)),
            LeftmostMatch(response_lower,
                LAMBDA t, i : NumberedLetter(t, i, w_position)),
            LeftmostMatch(response_lower,
                LAMBDA t, i : WordOrdinalLetter(t, i, FALSE, QuotedLetter)),
            LeftmostMatch(response_lower,
                LAMBDA t, i : WordOrdinalLetter(t, i, TRUE, QuotedLetter)),
            LeftmostMatch(response_lower,
                LAMBDA t, i : NumericOrdinalLetter(t, i, FALSE, BareLetter)),
            LeftmostMatch(response_lower,
                LAMBDA t, i : NumericOrdinalLetter(t, i, TRUE, BareLetter)),
            LeftmostMatch(response_lower,
                LAMBDA t, i : WordOrdinalLetter(t, i, FALSE, BareLetter)),
            LeftmostMatch(response_lower,
                LAMBDA t, i : WordOrdinalLetter(t, i, TRUE, BareLetter)) >>
        positions == {matches[k].pos : k \in DOMAIN matches} \ {0}
    IN  [pos \in positions |->
            matches[CHOOSE k \in DOMAIN matches :
                        /\ matches[k].pos = pos
                        /\ \A m \in DOMAIN matches :
                            matches[m].pos = pos => m <= k].letter]

(***************************************************************************)
(* ResponseParser.parse_response and parse_response_with_context on a     *)
(* text.  The result keeps the keys letter_<pos> as a function from the   *)
(* positions found; an absent key has the empty value.                    *)
(***************************************************************************)
NoClues ==
    [letter_count |-> 0, first_letters |-> <<>>, last_letters |-> <<>>,
     letters |-> [pos \in {} |-> NoLetter]]

ParseResponse(response) ==
    [letter_count |-> ExtractLetterCount(response),
     first_letters |-> ExtractFirstLetters(response),
     last_letters |-> ExtractLastLetters(response),
     letters |-> ExtractIndividualLetters(response)]

ParseTextWithContext(response, prompt) ==
    LET ctx == PromptContext(prompt)
    IN  IF ctx = "letter_count"
            THEN [NoClues EXCEPT !.letter_count = ExtractLetterCount(response)]
        ELSE IF ctx = "first_letters"
            THEN [NoClues EXCEPT !.first_letters = ExtractFirstLetters(response)]
        ELSE IF ctx = "last_letters"
            THEN [NoClues EXCEPT !.last_letters = ExtractLastLetters(response)]
        ELSE IF ctx = "individual"
            THEN [NoClues EXCEPT !.letters = ExtractIndividualLetters(response)]
        ELSE ParseResponse(response)

\* The parsed clues as a store, for clues.update.
AsStore(found) ==
    [EmptyStore EXCEPT
        !.letter_count = found.letter_count,
        !.first_letters = found.first_letters,
        !.last_letters = found.last_letters,
        !.letters = [i \in DOMAIN @ |->
                        IF i \in DOMAIN found.letters
                        THEN found.letters[i] ELSE NoLetter]]

\* HackMerlinSolver._is_denial_response on a text.
denial_phrases ==
    {<<"c", "a", "n", "n", "o", "t">>,
     <<"c", "a", "n", "'", "t">>,
     <<"s", "o", "r", "r", "y">>,
     <<"i", " ", "a", "m", " ", "s", "o", "r", "r", "y">>,
     <<"i", " ", "c", "a", "n", "n", "o", "t">>,
     <<"i", " ", "c", "a", "n", "'", "t">>,
     <<"c", "a", "n", "n", "o", "t", " ", "t", "e", "l", "l">>,
     <<"c", "a", "n", "n", "o", "t", " ", "r", "e", "v", "e", "a", "l">>,
     <<"c", "a", "n", "n", "o", "t", " ", "s", "a", "y">>,
     <<"c", "a", "n", "n", "o", "t", " ", "p", "r", "o", "v", "i", "d", "e">>,
     <<"r", "e", "f", "u", "s", "e">>,
     <<"u", "n", "a", "b", "l", "e">>,
     <<"n", "o", "t", " ", "a", "l", "l", "o", "w", "e", "d">>,
     <<"f", "o", "r", "b", "i", "d", "d", "e", "n">>,
     <<"r", "e", "s", "t", "r", "i", "c", "t", "e", "d">>,
     <<"i", "'", "m", " ", "s", "o", "r", "r", "y">>,
     <<"a", "p", "o", "l", "o", "g", "i", "z", "e">>,
     <<"r", "e", "g", "r", "e", "t">>,
     <<"u", "n", "f", "o", "r", "t", "u", "n", "a", "t", "e", "l", "y">>}

IsDenialText(response) ==
    /\ response # <<>>
    /\ \E phrase \in denial_phrases :
        Contains(Joined(LowerText(response)), phrase)

\* PromptGenerator._ordinal
Ordinal(n) ==
    Str(n) \o (IF 10 <= n % 100 /\ n % 100 <= 20 THEN <<"t", "h">>
               ELSE IF n % 10 = 1 THEN <<"s", "t">>
               ELSE IF n % 10 = 2 THEN <<"n", "d">>
               ELSE IF n % 10 = 3 THEN <<"r", "d">>
               ELSE <<"t", "h">>)

(***************************************************************************)
(* The answer texts the oracle is taken to give.                          *)
(***************************************************************************)
\* "The word has <n> letters."
TheWordHasNLetters(n) ==
    <<<<"T", "h", "e">>,
      <<"w", "o", "r", "d">>,
      <<"h", "a", "s">>>> \o <<Str(n)>> \o <<<<"l", "e", "t", "t", "e", "r", "s", ".">>>>

\* "<Word> letters, young one.", the word being the k-th number word
NumberWordLetters(k) ==
    <<<<UpperCase[CHOOSE i \in DOMAIN LowerCase :
                    LowerCase[i] = word_to_number[k][1]]>>
        \o Tail(word_to_number[k])>> \o <<<<"l", "e", "t", "t", "e", "r", "s", ",">>,
      <<"y", "o", "u", "n", "g">>,
      <<"o", "n", "e", ".">>>>

\* "It has <n> characters."
ItHasNCharacters(n) ==
    <<<<"I", "t">>,
      <<"h", "a", "s">>>> \o <<Str(n)>> \o <<<<"c", "h", "a", "r", "a", "c", "t", "e", "r", "s", ".">>>>

\* "<n>"
JustTheNumber(n) == <<Str(n)>>

SixLettersYoungOne == NumberWordLetters(6)

TheFirstFourLettersAreZODI ==
    <<<<"T", "h", "e">>,
      <<"f", "i", "r", "s", "t">>,
      <<"f", "o", "u", "r">>,
      <<"l", "e", "t", "t", "e", "r", "s">>,
      <<"a", "r", "e">>,
      <<"Z", "O", "D", "I", ".">>>>

ThePasswordEndsWithLEE ==
    <<<<"T", "h", "e">>,
      <<"p", "a", "s", "s", "w", "o", "r", "d">>,
      <<"e", "n", "d", "s">>,
      <<"w", "i", "t", "h">>,
      <<"\"", "L", "E", "E", ".", "\"">>>>

\* "It has 5 letters, starts with 'ab', ends with 'yz', and the <n-th> letter
\* is 'x'."
EverythingAtOnce(n) ==
    <<<<"I", "t">>,
      <<"h", "a", "s">>,
      <<"5">>,
      <<"l", "e", "t", "t", "e", "r", "s", ",">>,
      <<"s", "t", "a", "r", "t", "s">>,
      <<"w", "i", "t", "h">>,
      <<"'", "a", "b", "'", ",">>,
      <<"e", "n", "d", "s">>,
      <<"w", "i", "t", "h">>,
      <<"'", "y", "z", "'", ",">>,
      <<"a", "n", "d">>,
      <<"t", "h", "e">>>> \o <<Ordinal(n)>> \o <<<<"l", "e", "t", "t", "e", "r">>,
      <<"i", "s">>,
      <<"'", "x", "'", ".">>>>

\* "The <n-th> letter is E."
TheNthLetterIsE(n) ==
    <<<<"T", "h", "e">>>> \o <<Ordinal(n)>> \o <<<<"l", "e", "t", "t", "e", "r">>,
      <<"i", "s">>,
      <<"E", ".">>>>

ICannotTellYou ==
    <<<<"I">>,
      <<"c", "a", "n", "n", "o", "t">>,
      <<"t", "e", "l", "l">>,
      <<"y", "o", "u", ".">>>>

FirstTexts ==
    {TheFirstFourLettersAreZODI,
     <<<<"Z", ".", ".", ".">>,
       <<"E", ".", ".", ".">>,
       <<"P", ".", ".", ".">>,
       <<"H", ".", ".", ".">>>>,
     <<<<"I", "t">>,
       <<"s", "t", "a", "r", "t", "s">>,
       <<"w", "i", "t", "h">>,
       <<"'", "a", "b", "'", ".">>>>,
     <<<<"T", "h", "e">>,
       <<"f", "i", "r", "s", "t">>,
       <<"t", "h", "r", "e", "e">>,
       <<"l", "e", "t", "t", "e", "r", "s">>,
       <<"o", "f">>,
       <<"t", "h", "e">>,
       <<"p", "a", "s", "s", "w", "o", "r", "d">>,
       <<"a", "r", "e">>,
       <<"C", "-", "I", "-", "R", ".">>>>,
     <<<<"J", "A", "G", "U">>>>}

LastTexts ==
    {ThePasswordEndsWithLEE,
     <<<<"T", "h", "e">>,
       <<"l", "a", "s", "t">>,
       <<"t", "h", "r", "e", "e">>,
       <<"l", "e", "t", "t", "e", "r", "s">>,
       <<"a", "r", "e">>,
       <<"A", ",">>,
       <<"R", ",">>,
       <<"a", "n", "d">>,
       <<"R", ".">>>>,
     <<<<"I", "t">>,
       <<"e", "n", "d", "s">>,
       <<"w", "i", "t", "h">>,
       <<"'", "l", "e", "'", ".">>>>,
     <<<<"T", ".">>>>}

LetterTexts ==
    {<<<<"T", "h", "e">>,
       <<"f", "i", "f", "t", "h">>,
       <<"l", "e", "t", "t", "e", "r">>,
       <<"o", "f">>,
       <<"t", "h", "e">>,
       <<"p", "a", "s", "s", "w", "o", "r", "d">>,
       <<"i", "s">>,
       <<"'", "F", "'", ".">>>>,
     <<<<"L", "e", "t", "t", "e", "r">>,
       <<"3">>,
       <<"i", "s">>,
       <<"'", "c", "'">>,
       <<"a", "n", "d">>,
       <<"t", "h", "e">>,
       <<"2", "n", "d">>,
       <<"l", "e", "t", "t", "e", "r">>,
       <<"i", "s">>,
       <<"'", "b", "'", ".">>>>}

\* The largest letter count written in an answer.
MaxCount == 12

CountTexts ==
    {TheWordHasNLetters(n) : n \in 1..MaxCount}
        \cup {NumberWordLetters(k) : k \in DOMAIN word_to_number}
        \cup {ItHasNCharacters(n) : n \in {4, 10}}
        \cup {JustTheNumber(n) : n \in {7, MaxCount}}

MixedTexts ==
    {EverythingAtOnce(n) : n \in {3, 9}}
        \cup {TheNthLetterIsE(n) : n \in {5, 11}}
        \cup LetterTexts

Texts ==
    CountTexts \cup FirstTexts \cup LastTexts \cup MixedTexts
        \cup {ICannotTellYou}

(***************************************************************************)
(* HackMerlinSolver._generate_systematic_backup_prompts and the merge of  *)
(* _backup_prompt_strategy.                                                *)
(***************************************************************************)
LastLetter == Prompt("last letters?", 1)
FirstThreeLetters == Prompt("first letters?", 3)
LastTwoLetters == Prompt("last letters?", 2)

\* A queue that asks for the last two letters before the single positions.
GenerateSystematicBackupPromptsLastTwoEarly(letter_count, first_letters, last_letters) ==
    (IF Len(last_letters) # 1 THEN <<LastLetter>> ELSE <<>>)
    \o (IF Len(first_letters) # 3 THEN <<FirstThreeLetters>> ELSE <<>>)
    \o (IF Len(last_letters) # 2 THEN <<LastTwoLetters>> ELSE <<>>)
    \o [k \in 1..Max(0, letter_count - 3) |-> NthLetter(k + 3)]

GenerateSystematicBackupPrompts(letter_count, first_letters, last_letters) ==
    (IF Len(last_letters) # 1 THEN <<LastLetter>> ELSE <<>>)
    \o (IF Len(first_letters) # 3 THEN <<FirstThreeLetters>> ELSE <<>>)
    \o [k \in 1..Max(0, letter_count - 3) |-> NthLetter(k + 3)]
    \o (IF Len(last_letters) # 2 THEN <<LastTwoLetters>> ELSE <<>>)

\* A merge that overwrites the suffix with the reported one.
LastLetterOverwrite(existing_last, new_last) == new_last

\* A merge that appends the reported letter to the suffix.
LastLetterAppend(existing_last, new_last) ==
    existing_last \o <<new_last[Len(new_last)]>>

\* existing_last[:-1] + new_clues["last_letters"][-1]
LastLetterMerge(existing_last, new_last) ==
    IF existing_last # <<>>
    THEN SubSeq(existing_last, 1, Len(existing_last) - 1)
            \o <<new_last[Len(new_last)]>>
    ELSE <<new_last[Len(new_last)]>>

\* clue_type == "last_letters" and expected_count == 1
IsLastLetterPrompt(p) == p.kind = "last letters?" /\ p.n = 1

BackupMerge(c, new, p) ==
    IF new.last_letters # <<>> /\ IsLastLetterPrompt(p)
    THEN [c EXCEPT !.last_letters = LastLetterMerge(@, new.last_letters)]
    ELSE Update(c, new)

\* reconstructed_word and '?' not in reconstructed_word
Complete(word) == word # <<>> /\ \A i \in DOMAIN word : word[i] # Placeholder

solver == <<pc, questions_asked, best_word, use_llm, use_playwright,
            current_level, merlin_responses, automated, attempt,
            original_letter_count, backup_prompts, level_count,
            result, trace>>

vars == <<clues, ret, solver>>

\* The history kept for the properties: questions sent by the acquisition
\* loop, whether one of them came back empty, the answer to the planned
\* question of its last pass and the clues that pass took from the oracle,
\* whether a submission was rejected, what the last call of the backup strategy returned, whether an
\* offered word was accepted in it, how many length candidates it handled,
\* and the last backup question with the final letter of the suffix parsed
\* from its answer (NoLetter when no suffix was parsed).
NewTrace ==
    [asks |-> 0, no_answer |-> FALSE, answer |-> NoResponse,
     learned |-> EmptyStore, rejected |-> FALSE,
     backup_ret |-> "none", accepted |-> FALSE, variations |-> 0,
     asked |-> None, heard |-> NoLetter,
     backup_budget |-> 0, offers |-> 0]

\* The solver before run() starts a level, in the given configuration.
Idle(llm, playwright) ==
    /\ pc = "start"
    /\ questions_asked = 0
    /\ best_word = "unset"
    /\ use_llm = llm
    /\ use_playwright = playwright
    /\ current_level = 0
    /\ merlin_responses = <<>>
    /\ automated = FALSE
    /\ attempt = 0
    /\ original_letter_count = 0
    /\ backup_prompts = <<>>
    /\ level_count = 0
    /\ result = "none"
    /\ trace = NewTrace

(***************************************************************************)
(* Calls of the PromptGenerator methods on a given store.                 *)
(***************************************************************************)
NoCall ==
    [op |-> "none", prompt |-> None, word |-> <<>>, flag |-> FALSE,
     text |-> <<>>, found |-> NoClues]

CallGetNextPrompt ==
    /\ ret' = [NoCall EXCEPT !.op = "get_next_prompt",
                             !.prompt = GetNextPrompt(clues)]
    /\ UNCHANGED <<clues, solver>>

CallHasSufficientLetters ==
    /\ ret' = [NoCall EXCEPT !.op = "has_sufficient_letters",
                             !.flag = HasSufficientLetters(clues)]
    /\ UNCHANGED <<clues, solver>>

CallReconstructWord ==
    /\ ret' = [NoCall EXCEPT !.op = "reconstruct_word",
                             !.word = ReconstructWord(clues)]
    /\ UNCHANGED <<clues, solver>>


\* The stores built from the given counts, prefixes, suffixes, backup
\* prefixes, backup suffixes and pinned letters.
Stores(counts, firsts, lasts, first_backups, last_backups, pins) ==
    {[letter_count |-> n, first_letters |-> f, last_letters |-> l,
      first_letters_backup |-> fb, last_letters_backup |-> lb, letters |-> p] :
        n \in counts, f \in firsts, l \in lasts,
        fb \in first_backups, lb \in last_backups, p \in pins}

PinSets == {p \in [1..MaxPos -> Letters \cup {NoLetter}] :
                Cardinality({i \in 1..MaxPos : p[i] # NoLetter}) <= MaxPins}

\* Stores without backup keys: count, prefix, suffix and pinned letters.
InitClues ==
    /\ clues \in Stores(0..MaxLetterCount, Strs(MaxFirstLen), Strs(MaxLastLen),
                        {<<>>}, {<<>>}, PinSets)
    /\ ret = NoCall
    /\ Idle(FALSE, FALSE)

NextClues ==
    \/ CallGetNextPrompt
    \/ CallHasSufficientLetters
    \/ CallReconstructWord

SpecClues == InitClues /\ [][NextClues]_vars

\* Stores that hold one backup key next to the primary prefix and suffix.
InitBackupClues ==
    /\ \/ clues \in Stores(0..MaxLetterCount, Strs(MaxFirstLen),
                           Strs(MaxLastLen), Strs(MaxFirstLen), {<<>>}, {NoPins})
       \/ clues \in Stores(0..MaxLetterCount, Strs(MaxFirstLen),
                           Strs(MaxLastLen), {<<>>}, Strs(MaxLastLen), {NoPins})
    /\ ret = NoCall
    /\ Idle(FALSE, FALSE)

SpecBackupClues == InitBackupClues /\ [][NextClues]_vars

(***************************************************************************)
(* Calls of ResourceManager.find_best_word in the low resource tier.      *)
(***************************************************************************)
CallFindBestWord ==
    /\ ret = NoCall
    /\ ret' = [NoCall EXCEPT !.op = "find_best_word",
                             !.word = FindBestWord(clues)]
    /\ UNCHANGED <<clues, solver>>

SpecMatcher == InitClues /\ [][CallFindBestWord]_vars

(***************************************************************************)
(* Merges of one interpreter output into a store: clues.update of the     *)
(* acquisition loop and the merge of the backup strategy, which runs      *)
(* under "if new_clues".  ret.flag tells that the output had been merged  *)
(* before.                                                                 *)
(***************************************************************************)
\* Outputs of parse_response_with_context: clues of one type, and clues of
\* every type as the fallback branch returns them.
PinMaps ==
    {[pos \in {i} |-> x] : i \in 1..MaxPos, x \in Letters}

Outputs ==
    {[NoClues EXCEPT !.letter_count = n] : n \in LetterCounts}
        \cup {[NoClues EXCEPT !.first_letters = f] : f \in FirstAnswers}
        \cup {[NoClues EXCEPT !.last_letters = l] : l \in Strs(MaxLastLen) \ {<<>>}}
        \cup {[NoClues EXCEPT !.letters = m] : m \in PinMaps}
        \cup {[letter_count |-> n, first_letters |-> f, last_letters |-> l,
               letters |-> m] :
                n \in LetterCounts, f \in FirstAnswers, l \in LastAnswers,
                m \in {[pos \in {i} |-> "b"] : i \in {1, MaxPos}}}

InitMerge ==
    /\ clues \in Stores({0} \cup LetterCounts, {<<>>} \cup FirstAnswers,
                        Strs(MaxLastLen), {<<>>}, {<<>>}, PinSets)
    /\ \E found \in Outputs, prompt \in {LastLetter, LastTwoLetters} :
        ret = [NoCall EXCEPT !.found = found, !.prompt = prompt]
    /\ Idle(FALSE, FALSE)

MergeUpdate ==
    /\ ret.op \in {"none", "update"}
    /\ ret.found # NoClues
    /\ clues' = Update(clues, AsStore(ret.found))
    /\ ret' = [ret EXCEPT !.op = "update", !.flag = (ret.op = "update")]
    /\ UNCHANGED solver

MergeBackup ==
    /\ ret.op \in {"none", "backup_merge"}
    /\ ret.found # NoClues
    /\ clues' = BackupMerge(clues, AsStore(ret.found), ret.prompt)
    /\ ret' = [ret EXCEPT !.op = "backup_merge",
                          !.flag = (ret.op = "backup_merge")]
    /\ UNCHANGED solver

NextMerge == MergeUpdate \/ MergeBackup

SpecMerge == InitMerge /\ [][NextMerge]_vars

(***************************************************************************)
(* Calls of ResponseParser.parse_response_with_context on an answer text  *)
(* and a question of the engine.                                          *)
(***************************************************************************)
\* The questions of the planner and of the backup queue, plain and with the
\* "what are " prefix.
Questions ==
    LET plain == {HowManyLetters, FirstFourLetters, LastThreeLetters,
                  LastLetter, FirstThreeLetters, LastTwoLetters}
                    \cup {NthLetter(pos) : pos \in 1..MaxCount}
    IN  plain \cup {PolitePrompt(p) : p \in plain}

CallParseResponseWithContext ==
    /\ ret = NoCall
    /\ \E response \in Texts, prompt \in Questions :
        ret' = [NoCall EXCEPT !.op = "parse_response_with_context",
                              !.prompt = prompt,
                              !.text = response,
                              !.found = ParseTextWithContext(response, prompt)]
    /\ UNCHANGED <<clues, solver>>

InitParse == clues = EmptyStore /\ ret = NoCall /\ Idle(FALSE, FALSE)

SpecParse == InitParse /\ [][CallParseResponseWithContext]_vars

(***************************************************************************)
(* One question of the acquisition loop without an LLM, on answer texts:  *)
(* the planner's question, the interpretation of the answer, the          *)
(* rephrased question after a refusal, and the update of the store.  The  *)
(* loop is left once has_sufficient_letters holds or the planner has no   *)
(* question.                                                               *)
(***************************************************************************)
\* The questions the planner can return, plain and rephrased.
PlannerQuestions ==
    LET plain == {HowManyLetters, FirstFourLetters, LastThreeLetters}
    IN  plain \cup {PolitePrompt(p) : p \in plain}

\* The values of ParseTextWithContext on the planner's questions and the
\* answer texts, computed once.
Interpretations ==
    [prompt \in PlannerQuestions |->
        [response \in Texts |-> ParseTextWithContext(response, prompt)]]

\* The answer texts _is_denial_response takes for a refusal, computed once.
Refusals == {response \in Texts : IsDenialText(response)}

\* The answers given in the dialogue: every wording of Texts, with some of
\* the letter counts.
Heard ==
    (Texts \ CountTexts)
        \cup {TheWordHasNLetters(n) : n \in {4, 7, 10}}
        \cup {SixLettersYoungOne, ItHasNCharacters(4), JustTheNumber(7)}

AskAndInterpret ==
    LET prompt == GetNextPrompt(clues)
        polite_prompt == PolitePrompt(prompt)
    IN  /\ questions_asked < MAX_QUESTIONS_PER_LEVEL
        /\ prompt # None
        /\ ~HasSufficientLetters(clues)
        /\ \E response \in Heard :
            LET first_clues == Interpretations[prompt][response]
                denied == first_clues = NoClues /\ response \in Refusals
            IN  \E second \in IF denied THEN Heard \cup {<<>>} ELSE {response} :
                    LET new_clues ==
                            IF denied /\ second # <<>>
                            THEN Interpretations[polite_prompt][second]
                            ELSE first_clues
                    IN  /\ clues' = Update(clues, AsStore(new_clues))
                        /\ ret' = [NoCall EXCEPT
                                      !.op = "answer",
                                      !.prompt = IF denied THEN polite_prompt
                                                 ELSE prompt,
                                      !.text = second,
                                      !.found = new_clues]
        /\ questions_asked' = questions_asked + 1
        /\ UNCHANGED <<pc, best_word, use_llm, use_playwright, current_level,
                       merlin_responses, automated, attempt,
                       original_letter_count, backup_prompts, level_count,
                       result, trace>>

NextDialogue ==
    \/ AskAndInterpret
    \/ CallGetNextPrompt
    \/ CallHasSufficientLetters
    \/ CallReconstructWord

SpecDialogue == InitParse /\ [][NextDialogue]_vars


(***************************************************************************)
(* HackMerlinSolver: run, _solve_level, _submit_with_retry and            *)
(* _backup_prompt_strategy (src/src/hackmerlin/core/solver.py).  One      *)
(* action is one pass of a loop body, or the code between two loops.      *)
(***************************************************************************)
\* GameAutomation falls back to manual mode when a Playwright call raises.
Channel == IF use_playwright THEN {TRUE, FALSE} ELSE {FALSE}

\* merlin_responses.append(...), kept up to MaxResponses pairs: the solver
\* tests the list for emptiness and for len >= 2 only.
AppendResponse(responses, level) ==
    IF Len(responses) < MaxResponses THEN Append(responses, level) ELSE responses

\* "while questions_asked < self.max_questions_per_level" and the test
\* "if prompt is None: break" at the head of the acquisition loop.
LoopContinues(c, asked) ==
    asked < MAX_QUESTIONS_PER_LEVEL /\ GetNextPrompt(c) # None

\* A backup strategy that goes on after the user has confirmed a word.
OfferOutcomeIgnored(correct) == "continue"

\* "if correct == 'y': return True / else: continue"
OfferOutcome(correct) == IF correct = "y" THEN "return True" ELSE "continue"

\* A retry logic that gives up on the first rejection.
AfterRejectionGiveUp(manual, tries) == "return False"

\* _submit_with_retry after a rejected submission: the manual branch and the
\* first max_retries_per_level - 1 passes of the automated loop run the
\* backup strategy.
AfterRejection(manual, tries) ==
    IF manual \/ tries < MAX_RETRIES_PER_LEVEL - 1 THEN "backup"
    ELSE "return False"

\* Where control stands once _solve_level has returned to run().
LevelReturns(success) ==
    [pc |-> "start",
     result |-> IF success THEN "True" ELSE "False",
     attempt |-> attempt,
     level_count |-> IF success THEN level_count ELSE level_count - 1]

\* Where control stands once _backup_prompt_strategy has returned to
\* _submit_with_retry.
BackupReturns(success) ==
    IF success \/ ~automated THEN LevelReturns(success)
    ELSE [pc |-> "submit", result |-> result, attempt |-> attempt + 1,
          level_count |-> level_count]

Stays(at) ==
    [pc |-> at, result |-> result, attempt |-> attempt,
     level_count |-> level_count]

Goes(ctl) ==
    /\ pc' = ctl.pc
    /\ result' = ctl.result
    /\ attempt' = ctl.attempt
    /\ level_count' = ctl.level_count

\* run: "level_count += 1" and the head of _solve_level, with the shortcut
\* of the first level ("What is the password?").
StartLevel ==
    /\ pc = "start"
    /\ level_count < MaxLevels
    /\ \E password \in (IF current_level = 0
                        THEN {"no answer", "no password", "accepted", "rejected"}
                        ELSE {"not asked"}),
          playwright \in Channel :
        /\ use_playwright' = IF password = "not asked" THEN use_playwright
                             ELSE playwright
        /\ current_level' = IF password = "accepted" THEN current_level + 1
                            ELSE current_level
        /\ pc' = IF password = "accepted" THEN "start" ELSE "acquire"
        /\ result' = IF password = "accepted" THEN "True" ELSE "none"
    /\ level_count' = level_count + 1
    /\ clues' = EmptyStore
    /\ questions_asked' = 0
    /\ best_word' = "unset"
    /\ automated' = FALSE
    /\ attempt' = 0
    /\ original_letter_count' = 0
    /\ backup_prompts' = <<>>
    /\ trace' = NewTrace
    /\ UNCHANGED <<ret, use_llm, merlin_responses>>

\* A loop counter that is never advanced.
IncrementLost(asked) == asked

\* "questions_asked += 1" at the end of a pass that got an answer.
Increment(asked) == asked + 1

\* One pass of the acquisition loop of _solve_level.  trace.asks is kept up
\* to 2 * MAX_QUESTIONS_PER_LEVEL, the most the loop can send.
AcquireStep ==
    /\ pc = "acquire"
    /\ LET prompt == GetNextPrompt(clues)
       IN \E response \in Answers(prompt), playwright \in Channel :
            LET first == ParseResponseWithContext(response, prompt)
                denied == /\ ~use_llm
                          /\ ~response.empty
                          /\ first = EmptyStore
                          /\ IsDenialResponse(response)
            IN \E retry \in (IF denied THEN Answers(PolitePrompt(prompt))
                             ELSE {NoResponse}) :
                \E new_clues \in
                        {IF denied /\ ~retry.empty
                         THEN ParseResponseWithContext(retry, PolitePrompt(prompt))
                         ELSE first} :
                \E updated \in {IF response.empty THEN clues
                                ELSE Update(clues, new_clues)} :
                LET asked == IF response.empty THEN questions_asked
                             ELSE Increment(questions_asked)
                    stored == IF use_llm /\ ~response.empty
                              THEN AppendResponse(merlin_responses, current_level)
                              ELSE merlin_responses
                    break == \/ response.empty
                             \/ IF use_llm
                                THEN asked >= 3 /\ Len(stored) >= 2
                                ELSE HasSufficientLetters(updated)
                IN  /\ clues' = updated
                    /\ questions_asked' = asked
                    /\ merlin_responses' = stored
                    /\ use_playwright' = playwright
                    /\ pc' = IF break \/ ~LoopContinues(updated, asked)
                             THEN "reconstruct" ELSE "acquire"
                    /\ trace' = [trace EXCEPT
                            !.asks = Min(@ + 1 + (IF denied THEN 1 ELSE 0),
                                         2 * MAX_QUESTIONS_PER_LEVEL),
                            !.no_answer = @ \/ response.empty
                                            \/ (denied /\ retry.empty),
                            !.answer = response,
                            !.learned = IF response.empty THEN EmptyStore
                                        ELSE new_clues]
    /\ UNCHANGED <<ret, best_word, use_llm, current_level, automated, attempt,
                   original_letter_count, backup_prompts, level_count, result>>

\* _solve_level from reconstruct_word to the entry of _submit_with_retry.
\* The loop counter is dead once the loop is over: it is forgotten here,
\* together with the history of the loop.
\* The word generator of the LLM tier is an external service: it returns a
\* word or nothing.
ReconstructStep ==
    /\ pc = "reconstruct"
    /\ \E found \in (IF use_llm
                     THEN (IF merlin_responses # <<>> THEN {"None", "word"}
                           ELSE {"None"})
                     ELSE {IF FindBestWord(clues) = NoWord THEN "None"
                           ELSE "word"}) :
        /\ best_word' = found
        /\ IF found = "None"
           THEN /\ Goes(LevelReturns(FALSE))
                /\ automated' = automated
           ELSE /\ pc' = "submit"
                /\ attempt' = 0
                /\ automated' = use_playwright
                /\ UNCHANGED <<result, level_count>>
    /\ questions_asked' = 0
    /\ trace' = [trace EXCEPT !.asks = 0, !.no_answer = FALSE,
                              !.answer = NoResponse, !.learned = EmptyStore]
    /\ UNCHANGED <<clues, ret, use_llm, use_playwright, current_level,
                   merlin_responses, original_letter_count, backup_prompts>>

\* _submit_with_retry: one submission and, when it is rejected, the entry
\* of _backup_prompt_strategy up to its loop.
SubmitGuess ==
    /\ pc = "submit"
    /\ \E accepted \in BOOLEAN, playwright \in Channel :
        /\ use_playwright' = playwright
        /\ IF accepted
           THEN /\ current_level' = current_level + 1
                /\ Goes(LevelReturns(TRUE))
                /\ trace' = trace
                /\ UNCHANGED <<original_letter_count, backup_prompts>>
           ELSE /\ current_level' = current_level
                /\ IF AfterRejection(~automated, attempt) = "backup"
                   THEN /\ original_letter_count' = clues.letter_count
                        /\ IF clues.letter_count = 0
                           THEN /\ backup_prompts' = <<>>
                                /\ Goes(BackupReturns(FALSE))
                                /\ trace' = [trace EXCEPT
                                        !.rejected = TRUE,
                                        !.backup_ret = "False",
                                        !.accepted = FALSE,
                                        !.variations = 0,
                                        !.asked = None,
                                        !.heard = NoLetter]
                           ELSE /\ backup_prompts' =
                                        GenerateSystematicBackupPrompts(
                                            clues.letter_count,
                                            clues.first_letters,
                                            clues.last_letters)
                                /\ Goes(Stays("backup"))
                                /\ trace' = [trace EXCEPT
                                        !.rejected = TRUE,
                                        !.backup_ret = "none",
                                        !.accepted = FALSE,
                                        !.variations = 0,
                                        !.asked = None,
                                        !.heard = NoLetter,
                                        !.backup_budget =
                                            IF trace.rejected THEN @
                                            ELSE Len(backup_prompts')]
                   ELSE /\ Goes(LevelReturns(FALSE))
                        /\ trace' = [trace EXCEPT !.rejected = TRUE]
                        /\ UNCHANGED <<original_letter_count, backup_prompts>>
    /\ UNCHANGED <<clues, ret, questions_asked, best_word, use_llm,
                   merlin_responses, automated>>

\* A fallback that runs whatever the length is.
TriesLengthVariationsAlways(n) == n >= 1

\* "if original_letter_count == 7:"
TriesLengthVariations(n) == n = 7

\* trace.backup_budget is the length of the queue generated at the first
\* entry of the level attempt less the questions the backup phase has sent
\* since, kept down to -1; trace.offers is kept as long as it is not
\* negative.
Spent(budget, sent) == Max(budget - sent, 0 - 1)

\* One pass of the loop over the backup queue.
BackupStep ==
    /\ pc = "backup"
    /\ LET prompt == Head(backup_prompts)
       IN \E response \in Answers(prompt), playwright \in Channel :
            LET first == ParseResponseWithContext(response, prompt)
                denied == /\ ~use_llm
                          /\ ~response.empty
                          /\ first = EmptyStore
                          /\ IsDenialResponse(response)
            IN \E retry \in (IF denied THEN Answers(PolitePrompt(prompt))
                             ELSE {NoResponse}),
                  generated \in (IF use_llm /\ ~response.empty THEN BOOLEAN
                                 ELSE {FALSE}) :
                LET new_clues ==
                        IF use_llm \/ response.empty THEN EmptyStore
                        ELSE IF denied /\ ~retry.empty
                        THEN ParseResponseWithContext(retry, PolitePrompt(prompt))
                        ELSE first
                    updated == IF new_clues # EmptyStore
                               THEN BackupMerge(clues, new_clues, prompt)
                               ELSE clues
                    offered == /\ ~response.empty
                               /\ IF use_llm THEN generated
                                  ELSE Complete(ReconstructWord(updated))
                IN \E correct \in (IF offered THEN {"y", "n"} ELSE {"n"}) :
                    LET success == offered /\ OfferOutcome(correct) = "return True"
                        more == Tail(backup_prompts) # <<>>
                        sent == IF denied THEN 2 ELSE 1
                    IN  /\ clues' = updated
                        /\ use_playwright' = playwright
                        /\ merlin_responses' =
                                IF use_llm /\ ~response.empty
                                THEN AppendResponse(merlin_responses, current_level)
                                ELSE merlin_responses
                        /\ backup_prompts' = IF success THEN backup_prompts
                                             ELSE Tail(backup_prompts)
                        /\ Goes(IF success THEN BackupReturns(TRUE)
                                ELSE IF more THEN Stays("backup")
                                ELSE IF TriesLengthVariations(original_letter_count)
                                THEN Stays("variations")
                                ELSE BackupReturns(FALSE))
                        /\ trace' = [trace EXCEPT
                                !.accepted = offered /\ correct = "y",
                                !.backup_ret =
                                    IF success THEN "True"
                                    ELSE IF more \/ TriesLengthVariations(
                                                        original_letter_count)
                                    THEN "none" ELSE "False",
                                !.asked = prompt,
                                !.backup_budget = Spent(@, sent),
                                !.offers = IF Spent(trace.backup_budget, sent) < 0
                                           THEN 0 ELSE @,
                                !.heard =
                                    IF new_clues.last_letters = <<>> THEN NoLetter
                                    ELSE new_clues.last_letters[
                                            Len(new_clues.last_letters)]]
    /\ UNCHANGED <<ret, questions_asked, best_word, use_llm, current_level,
                   automated, original_letter_count>>

\* len(candidate_lengths)
MaxOffers == 2

\* The length candidates 6 and 8 of a 7-letter word, the end of
\* _backup_prompt_strategy.  trace.offers counts the candidates offered in
\* the level attempt, up to MaxOffers + 1, while trace.backup_budget is not
\* negative.
LengthVariations ==
    /\ pc = "variations"
    /\ LET candidate_clues(n) == [clues EXCEPT !.letter_count = n]
           offered6 == Complete(ReconstructWord(candidate_clues(6)))
           offered8 == Complete(ReconstructWord(candidate_clues(8)))
       IN \E correct6 \in (IF offered6 THEN {"y", "n"} ELSE {"n"}) :
            LET success6 == offered6 /\ OfferOutcome(correct6) = "return True"
            IN \E correct8 \in (IF ~success6 /\ offered8 THEN {"y", "n"}
                                ELSE {"n"}) :
                LET success8 == /\ ~success6
                                /\ offered8
                                /\ OfferOutcome(correct8) = "return True"
                IN  /\ Goes(BackupReturns(success6 \/ success8))
                    /\ trace' = [trace EXCEPT
                            !.accepted = (offered6 /\ correct6 = "y")
                                            \/ (offered8 /\ correct8 = "y"),
                            !.backup_ret = IF success6 \/ success8 THEN "True"
                                           ELSE "False",
                            !.variations = IF success6 THEN 1 ELSE 2,
                            !.offers =
                                IF trace.backup_budget < 0 THEN 0
                                ELSE Min(@ + (IF offered6 THEN 1 ELSE 0)
                                           + (IF ~success6 /\ offered8
                                              THEN 1 ELSE 0),
                                         MaxOffers + 1)]
    /\ UNCHANGED <<clues, ret, questions_asked, best_word, use_llm,
                   use_playwright, current_level, merlin_responses, automated,
                   original_letter_count, backup_prompts>>

Init ==
    /\ clues = EmptyStore
    /\ ret = NoCall
    /\ \E llm \in BOOLEAN, playwright \in BOOLEAN : Idle(llm, playwright)

Next ==
    \/ StartLevel
    \/ AcquireStep
    \/ ReconstructStep
    \/ SubmitGuess
    \/ BackupStep
    \/ LengthVariations

Spec == Init /\ [][Next]_vars

\* The acquisition loop on its own: a level is started and the loop runs.
\* A pass of the loop is sequential code that runs to its end once the
\* oracle has answered, and the oracle answers every question.
NextAcquire ==
    \/ StartLevel
    \/ AcquireStep

SpecAcquire == Init /\ [][NextAcquire]_vars /\ WF_vars(AcquireStep)

(***************************************************************************)
(* Evidence about one position of the word, and stores free of conflicts. *)
(***************************************************************************)
PrefixAt(c, i) ==
    IF i <= Len(c.first_letters) THEN {c.first_letters[i]} ELSE {}

SuffixAt(c, i) ==
    LET k == i - (c.letter_count - Len(c.last_letters))
    IN IF k >= 1 /\ k <= Len(c.last_letters) THEN {c.last_letters[k]} ELSE {}

PinnedAt(c, i) ==
    IF i \in PinnedPositions(c) THEN {c.letters[i]} ELSE {}

NoConflict(c) ==
    \A i \in 1..c.letter_count :
        Cardinality(PrefixAt(c, i) \cup SuffixAt(c, i) \cup PinnedAt(c, i)) <= 1

AllKnown(c) ==
    c.letter_count # 0 /\ c.first_letters # <<>> /\ c.last_letters # <<>>

SetMin(S) == CHOOSE x \in S : \A y \in S : x <= y

(***************************************************************************)
(* C1: for a store with a known letter_count n >= 1 whose prefix, suffix  *)
(* and pinned letters do not conflict, reconstruct_word returns a word of *)
(* length exactly n that has every pinned letter_i (1 <= i <= n) at       *)
(* position i.                                                             *)
(***************************************************************************)
C1_ReconstructLengthAndPins ==
    (ret.op = "reconstruct_word" /\ clues.letter_count >= 1 /\ NoConflict(clues))
        => /\ Len(ret.word) = clues.letter_count
           /\ \A i \in PinnedPositions(clues) :
                i <= clues.letter_count => ret.word[i] = clues.letters[i]

C1_Witness ==
    /\ ret.op = "reconstruct_word"
    /\ clues.letter_count >= 3
    /\ NoConflict(clues)
    /\ clues.first_letters # <<>>
    /\ clues.last_letters # <<>>
    /\ \E i \in PinnedPositions(clues) :
            i <= clues.letter_count /\ ret.word[i] = clues.letters[i]

(***************************************************************************)
(* C2: with letter_count, first_letters and last_letters known and        *)
(* a + b < letter_count, get_next_prompt returns the "Nth letter"         *)
(* question for the lowest unpinned position N in [a+1, letter_count-b],  *)
(* and the no-further-question value only when all of them are pinned.    *)
(***************************************************************************)
C2_AsksLowestMissingPosition ==
    (/\ ret.op = "get_next_prompt"
     /\ AllKnown(clues)
     /\ Len(clues.first_letters) + Len(clues.last_letters) < clues.letter_count)
        => ret.prompt = IF MissingIndices(clues) # {}
                        THEN NthLetter(SetMin(MissingIndices(clues)))
                        ELSE None

(***************************************************************************)
(* C3: get_next_prompt walks its stages in a fixed order read off the     *)
(* store alone: the letter-count question while letter_count is unknown,  *)
(* else the first-letters question while first_letters is unknown, else   *)
(* the last-letters question while last_letters is unknown, and no        *)
(* further question once all three are known and a + b >= letter_count.   *)
(* The result of a call is fixed by the store it is given, whatever calls *)
(* came before it.                                                         *)
(***************************************************************************)
C3_StagesInOrder ==
    ret.op = "get_next_prompt" =>
        /\ clues.letter_count = 0 => ret.prompt = HowManyLetters
        /\ (clues.letter_count # 0 /\ clues.first_letters = <<>>)
                => ret.prompt = FirstFourLetters
        /\ (clues.letter_count # 0 /\ clues.first_letters # <<>>
                /\ clues.last_letters = <<>>)
                => ret.prompt = LastThreeLetters
        /\ (AllKnown(clues)
                /\ Len(clues.first_letters) + Len(clues.last_letters)
                        >= clues.letter_count)
                => ret.prompt = None

C3_Witness ==
    /\ ret.op = "get_next_prompt"
    /\ clues.letter_count # 0
    /\ clues.first_letters # <<>>
    /\ clues.last_letters = <<>>
    /\ ret.prompt = LastThreeLetters

(***************************************************************************)
(* C4 as stated: on every store for which has_sufficient_letters is true, *)
(* get_next_prompt returns the no-further-question value.                 *)
(***************************************************************************)
C4_SufficientMeansNoQuestion ==
    (ret.op = "get_next_prompt" /\ HasSufficientLetters(clues))
        => ret.prompt = None

(***************************************************************************)
(* C4 amended: on every store that holds letter_count, first_letters and  *)
(* last_letters and a pinned letter for every position between prefix and *)
(* suffix (none when a + b >= letter_count), get_next_prompt returns the  *)
(* no-further-question value, on every call.                               *)
(***************************************************************************)
C4_CoveredMeansNoQuestion ==
    (ret.op = "get_next_prompt" /\ AllKnown(clues)
        /\ \A i \in (Len(clues.first_letters) + 1)
                        ..(clues.letter_count - Len(clues.last_letters)) :
                i \in PinnedPositions(clues))
        => ret.prompt = None

C4_Witness ==
    /\ ret.op = "get_next_prompt"
    /\ AllKnown(clues)
    /\ Len(clues.first_letters) + Len(clues.last_letters) < clues.letter_count
    /\ HasSufficientLetters(clues)
    /\ ret.prompt = None

(***************************************************************************)
(* C8: when the store holds a 4-character prefix and a 3-character prefix *)
(* at once, one under first_letters and the other under                   *)
(* first_letters_backup in either arrangement, and no pinned letter at    *)
(* positions 1..4, reconstruct_word puts the 4-character prefix at        *)
(* positions 1..4 of the word (letter_count >= 4).  Stated for the stores *)
(* whose suffix ends clear of positions 1..4, where only the two prefixes *)
(* compete for them.                                                       *)
(***************************************************************************)
FourCharPrefix(c) ==
    IF Len(c.first_letters) = 4 THEN c.first_letters ELSE c.first_letters_backup

C8_FourCharPrefixWins ==
    (/\ ret.op = "reconstruct_word"
     /\ clues.letter_count >= 4
     /\ {Len(clues.first_letters), Len(clues.first_letters_backup)} = {3, 4}
     /\ PinnedPositions(clues) \cap 1..4 = {}
     /\ clues.letter_count - Len(clues.last_letters) >= 4
     /\ clues.letter_count - Len(clues.last_letters_backup) >= 4)
        => SubSeq(ret.word, 1, 4) = FourCharPrefix(clues)

(***************************************************************************)
(* C5: in one level attempt, the number of questions sent to the oracle   *)
(* before the first word submission of the clue-based flow never exceeds  *)
(* max_questions_per_level.  Counted here: the questions of the           *)
(* acquisition loop alone, the password question of the first level left  *)
(* aside.                                                                  *)
(***************************************************************************)
C5_QuestionBudget == trace.asks <= MAX_QUESTIONS_PER_LEVEL

(***************************************************************************)
(* C6: _backup_prompt_strategy returns success as soon as an offered      *)
(* reconstruction is accepted: once a word is accepted the call is over,  *)
(* the level attempt has returned success and no queue entry or candidate *)
(* is handled after it.  It returns failure only when no offered word was *)
(* accepted and the whole queue, and for a 7-letter word both length      *)
(* candidates, have been processed.                                        *)
(***************************************************************************)
C6_BackupTermination ==
    /\ trace.accepted =>
            (trace.backup_ret = "True" /\ pc = "start" /\ result = "True")
    /\ trace.backup_ret = "True" => trace.accepted
    /\ trace.backup_ret = "False" =>
            /\ ~trace.accepted
            /\ backup_prompts = <<>>
            /\ original_letter_count = 7 => trace.variations = 2

C6_Witness ==
    /\ trace.accepted
    /\ trace.backup_ret = "True"
    /\ trace.asked # None
    /\ Len(backup_prompts) >= 2

(***************************************************************************)
(* C7: in the backup phase, when the question asked is "the last letter"  *)
(* and its answer yields a suffix clue while the store holds a non-empty  *)
(* last_letters, the step keeps the length of last_letters and all its    *)
(* characters but the last, sets the last character to the reported one,  *)
(* and changes no other key of the store.                                  *)
(***************************************************************************)
C7_LastLetterMergeFrame ==
    [][(/\ pc = "backup"
        /\ backup_prompts # <<>>
        /\ IsLastLetterPrompt(Head(backup_prompts))
        /\ clues.last_letters # <<>>
        /\ trace'.heard # NoLetter)
        => /\ Len(clues'.last_letters) = Len(clues.last_letters)
           /\ \A i \in 1..(Len(clues.last_letters) - 1) :
                clues'.last_letters[i] = clues.last_letters[i]
           /\ clues'.last_letters[Len(clues.last_letters)] = trace'.heard
           /\ [clues' EXCEPT !.last_letters = clues.last_letters] = clues]_vars

C7_Witness ==
    /\ trace.asked = LastLetter
    /\ trace.heard # NoLetter
    /\ Len(clues.last_letters) = 2
    /\ clues.last_letters[2] = trace.heard
    /\ clues.last_letters[1] # trace.heard

C10_EmptyAnswerEndsLoop == trace.no_answer => pc # "acquire"

(***************************************************************************)
(* C11: in a pass of the acquisition loop of a pattern-based tier, when   *)
(* no clue is taken from the oracle the store after the pass equals the   *)
(* store before it; the pass sends the planned question and at most one   *)
(* rephrased question, and the rephrased one only when the answer to the  *)
(* planned question yields no clue and holds a denial phrase.             *)
(***************************************************************************)
C11_NoClueNoChange ==
    [][(pc = "acquire" /\ ~use_llm)
        => /\ trace'.learned = EmptyStore => clues' = clues
           /\ trace'.asks - trace.asks \in {1, 2}
           /\ trace'.asks - trace.asks = 2
                => /\ ~trace'.answer.empty
                   /\ trace'.answer.denial
                   /\ trace'.answer.found = EmptyStore]_vars

C11_Witness ==
    /\ ~use_llm
    /\ pc = "acquire"
    /\ clues.letter_count # 0
    /\ clues.first_letters = <<>>
    /\ trace.answer = Denial
    /\ trace.learned = EmptyStore
    /\ trace.asks = questions_asked + 1
    /\ questions_asked >= 2

\* C12: the scenario of three questions and answers.  From the empty store
\* the planner asks for the letter count and 'Six letters, young one.' stores
\* letter_count = 6; it then asks for the first letters and 'The first four
\* letters are ZODI.' stores first_letters = 'zodi'; it then asks for the
\* last letters and 'The password ends with "LEE."' stores last_letters =
\* 'lee'; with that store has_sufficient_letters is true, the planner has no
\* further question, and reconstruct_word returns a word of 6 characters that
\* starts with 'zodi' and ends with 'ee'.
AfterSix == [EmptyStore EXCEPT !.letter_count = 6]

AfterZodi == [AfterSix EXCEPT !.first_letters = <<"z", "o", "d", "i">>]

AfterLee == [AfterZodi EXCEPT !.last_letters = <<"l", "e", "e">>]

C12_Scenario ==
    [][/\ (clues = EmptyStore /\ ret'.op = "answer")
            => /\ ret'.prompt.kind = HowManyLetters.kind
               /\ ret'.text = SixLettersYoungOne => clues' = AfterSix
       /\ (clues = AfterSix /\ ret'.op = "answer")
            => /\ ret'.prompt.kind = FirstFourLetters.kind
               /\ ret'.prompt.n = FirstFourLetters.n
               /\ ret'.text = TheFirstFourLettersAreZODI => clues' = AfterZodi
       /\ (clues = AfterZodi /\ ret'.op = "answer")
            => /\ ret'.prompt.kind = LastThreeLetters.kind
               /\ ret'.prompt.n = LastThreeLetters.n
               /\ ret'.text = ThePasswordEndsWithLEE => clues' = AfterLee
       /\ clues = AfterLee
            => /\ ret'.op # "answer"
               /\ ret'.op = "has_sufficient_letters" => ret'.flag
               /\ ret'.op = "get_next_prompt" => ret'.prompt = None
               /\ ret'.op = "reconstruct_word"
                    => /\ Len(ret'.word) = 6
                       /\ SubSeq(ret'.word, 1, 4) = <<"z", "o", "d", "i">>
                       /\ SubSeq(ret'.word, 5, 6) = <<"e", "e">>]_vars

C12_Witness ==
    /\ clues = AfterLee
    /\ questions_asked = 3
    /\ ret.op = "reconstruct_word"
    /\ ret.word = <<"z", "o", "d", "i", "e", "e">>

\* C13: for every N in 1..12 the answer 'The word has N letters.', N in
\* digits, interpreted as the answer to the letter-count question, yields
\* letter_count = N.
C13_CountRoundTrip ==
    \A n \in 1..MaxCount :
        (/\ ret.op = "parse_response_with_context"
         /\ ret.prompt = HowManyLetters
         /\ ret.text = TheWordHasNLetters(n))
            => ret.found.letter_count = n

\* C17: the clues parse_response_with_context returns for a letter-count,
\* first-letters, last-letters or single-position question (positions 1 to
\* 12) are of the type asked alone; an answer to a first-letters,
\* last-letters or position question never sets letter_count.
C17_ContextGating ==
    ret.op = "parse_response_with_context"
        => LET kind == ret.prompt.kind
               found == ret.found
           IN  /\ kind = HowManyLetters.kind
                    => /\ found.first_letters = <<>>
                       /\ found.last_letters = <<>>
                       /\ DOMAIN found.letters = {}
               /\ kind = FirstFourLetters.kind
                    => /\ found.letter_count = 0
                       /\ found.last_letters = <<>>
                       /\ DOMAIN found.letters = {}
               /\ kind = LastThreeLetters.kind
                    => /\ found.letter_count = 0
                       /\ found.first_letters = <<>>
                       /\ DOMAIN found.letters = {}
               /\ kind = NthLetter(1).kind
                    => /\ found.letter_count = 0
                       /\ found.first_letters = <<>>
                       /\ found.last_letters = <<>>

\* C14: in the low tier, for a store with a known letter_count n,
\* find_best_word returns a word of length n without a placeholder; a
\* position with a pinned letter holds the pinned letter, a position without
\* one that the prefix or the suffix covers holds the letter of the prefix or
\* of the suffix, and every other position holds a letter of the pool
\* a, e, i, o, u, r, s, t, n, l.
Pool == {common_letters[k] : k \in DOMAIN common_letters}

C14_LowTierWordComplete ==
    (ret.op = "find_best_word" /\ clues.letter_count >= 1)
        => /\ Len(ret.word) = clues.letter_count
           /\ \A i \in 1..clues.letter_count :
                /\ ret.word[i] # Placeholder
                /\ PinnedAt(clues, i) # {} => ret.word[i] \in PinnedAt(clues, i)
                /\ (PinnedAt(clues, i) = {}
                        /\ PrefixAt(clues, i) \cup SuffixAt(clues, i) # {})
                    => ret.word[i] \in PrefixAt(clues, i) \cup SuffixAt(clues, i)
                /\ (PinnedAt(clues, i) \cup PrefixAt(clues, i)
                        \cup SuffixAt(clues, i) = {})
                    => ret.word[i] \in Pool

C14_Witness ==
    /\ ret.op = "find_best_word"
    /\ clues.letter_count = MaxLetterCount
    /\ Len(clues.first_letters) = 2
    /\ Len(clues.last_letters) = 1
    /\ \E i \in 1..2 : PinnedAt(clues, i) = {"b"} /\ PrefixAt(clues, i) = {"a"}
    /\ \E i \in 3..(MaxLetterCount - 1) : ret.word[i] \notin Letters

\* C15: merging an interpreter output into a store a second time, by the
\* plain update or by the last-letter merge of the backup strategy, leaves
\* the store as the first merge made it.
C15_MergeIdempotent ==
    [][(ret.op \in {"update", "backup_merge"}) => clues' = clues]_vars

C15_Witness ==
    /\ ret.op = "backup_merge"
    /\ ret.flag
    /\ IsLastLetterPrompt(ret.prompt)
    /\ ret.found.last_letters = <<"a", "b">>
    /\ clues.last_letters = <<"a", "b">>
    /\ clues.letter_count # 0

\* C16: the backup queue holds, in this order, the last-letter question iff
\* the known suffix length is not 1, the first-three-letters question iff the
\* known prefix length is not 3, one single-letter question for each of the
\* positions 4, 5, ..., letter_count in increasing order, and the
\* last-two-letters question iff the known suffix length is not 2, and
\* nothing else; the backup phase asks the questions in queue order.
QueueInOrder(q, n, a, b) ==
    LET head == (IF b # 1 THEN 1 ELSE 0) + (IF a # 3 THEN 1 ELSE 0)
    IN  /\ Index(q, LastLetter) = (IF b # 1 THEN 1 ELSE 0)
        /\ Index(q, FirstThreeLetters) = (IF a # 3 THEN head ELSE 0)
        /\ \A pos \in 4..n : Index(q, NthLetter(pos)) = head + (pos - 3)
        /\ Index(q, LastTwoLetters) = (IF b # 2 THEN Len(q) ELSE 0)
        /\ Len(q) = head + Max(0, n - 3) + (IF b # 2 THEN 1 ELSE 0)

C19_BackupBudget ==
    /\ trace.backup_budget >= 0
    /\ trace.offers <= MaxOffers

\* C20: whatever the oracle answers (clues, text without clues, refusals,
\* repeated or contradictory answers, no answer), the acquisition loop of
\* _solve_level comes to an end and control reaches reconstruct_word.
C20_AcquisitionTerminates == (pc = "acquire") ~> (pc = "reconstruct")

\* The loop has used its whole budget on answers without a clue and has
\* handed over to the reconstruction.
C20_Witness ==
    /\ pc = "reconstruct"
    /\ questions_asked = MAX_QUESTIONS_PER_LEVEL
    /\ clues = EmptyStore
    /\ trace.asks > MAX_QUESTIONS_PER_LEVEL

\* C21: the length-variation fallback starts only from the backup loop, when
\* the letter count taken at the entry of the backup strategy is 7, the queue
\* is used up and no guess was accepted; it handles the length 6 and then the
\* length 8, offers only words reconstructed from the store with letter_count
\* replaced, sends no question and leaves the store as it is.
C21_LengthVariationsFrame ==
    [][/\ (pc' = "variations" /\ pc # "variations")
            => /\ pc = "backup"
               /\ original_letter_count' = 7
               /\ backup_prompts' = <<>>
               /\ ~trace'.accepted
       /\ pc = "variations"
            => /\ clues' = clues
               /\ trace'.backup_budget = trace.backup_budget
               /\ trace'.asked = trace.asked
               /\ merlin_responses' = merlin_responses
               /\ trace'.variations \in {1, 2}
               /\ trace'.variations = 1
                    => /\ trace'.accepted
                       /\ Complete(ReconstructWord(
                                [clues EXCEPT !.letter_count = 6]))
               /\ (trace'.variations = 2 /\ trace'.accepted)
                    => Complete(ReconstructWord(
                                [clues EXCEPT !.letter_count = 8]))]_vars

C21_Witness ==
    /\ original_letter_count = 7
    /\ clues.letter_count = 7
    /\ trace.variations = 2
    /\ trace.accepted
    /\ trace.backup_ret = "True"

\* C22: has_sufficient_letters returns false when letter_count is unknown;
\* it returns true when prefix and suffix together are at least as long as
\* the word, and when the store pins exactly as many single positions as
\* prefix and suffix leave uncovered.
C22_SufficiencyCases ==
    ret.op = "has_sufficient_letters" =>
        LET n == clues.letter_count
            a == Len(clues.first_letters)
            b == Len(clues.last_letters)
            uncovered == IF a + b >= n THEN 0 ELSE n - (a + b)
        IN  /\ n = 0 => ~ret.flag
            /\ (n >= 1 /\ a + b >= n) => ret.flag
            /\ (n >= 1 /\ Cardinality(PinnedPositions(clues)) = uncovered)
                    => ret.flag

C22_Witness ==
    /\ ret.op = "has_sufficient_letters"
    /\ ret.flag
    /\ clues.letter_count = 7
    /\ Len(clues.first_letters) = 4
    /\ Len(clues.last_letters) = 2
    /\ Cardinality(PinnedPositions(clues)) = 1

\* C23: a pinned letter at a position beyond letter_count is ignored by
\* every component: with it and without it reconstruct_word returns the same
\* word, has_sufficient_letters the same boolean and get_next_prompt the same
\* question.
C23_OutOfRangePinIgnored ==
    \A i \in PinnedPositions(clues) :
        i > clues.letter_count =>
            LET without == [clues EXCEPT !.letters[i] = NoLetter]
            IN  /\ ret.op = "reconstruct_word"
                    => ret.word = ReconstructWord(without)
                /\ ret.op = "has_sufficient_letters"
                    => ret.flag = HasSufficientLetters(without)
                /\ ret.op = "get_next_prompt"
                    => ret.prompt = GetNextPrompt(without)

\* C24: with a non-empty first_letters_backup (last_letters_backup)
\* reconstruct_word builds the word from the backup value, whatever
\* first_letters (last_letters) is; with an empty backup value it builds the
\* word from the primary value.
C24_BackupPreferred ==
    ret.op = "reconstruct_word" =>
        LET first == IF clues.first_letters_backup # <<>>
                     THEN clues.first_letters_backup ELSE clues.first_letters
            last == IF clues.last_letters_backup # <<>>
                    THEN clues.last_letters_backup ELSE clues.last_letters
        IN  /\ ret.word = ReconstructWord(
                            [clues EXCEPT !.first_letters = first,
                                          !.last_letters = last,
                                          !.first_letters_backup = <<>>,
                                          !.last_letters_backup = <<>>])
            /\ clues.first_letters_backup # <<>>
                => \A f \in Strs(MaxFirstLen) :
                    ReconstructWord([clues EXCEPT !.first_letters = f]) = ret.word
            /\ clues.last_letters_backup # <<>>
                => \A l \in Strs(MaxLastLen) :
                    ReconstructWord([clues EXCEPT !.last_letters = l]) = ret.word

C24_Witness ==
    /\ ret.op = "reconstruct_word"
    /\ clues.letter_count = 7
    /\ Len(clues.first_letters_backup) = 4
    /\ Len(clues.first_letters) = 4
    /\ clues.first_letters # clues.first_letters_backup
    /\ SubSeq(ret.word, 1, 4) = clues.first_letters_backup

\* C25: on every store on which has_sufficient_letters returns true,
\* reconstruct_word returns a word of length letter_count without a
\* placeholder.
C25_SufficientMeansComplete ==
    (ret.op = "reconstruct_word" /\ HasSufficientLetters(clues))
        => /\ Len(ret.word) = clues.letter_count
           /\ Complete(ret.word)

\* C26: in the acquisition loop, once the store holds a letter count the
\* question of the next pass is not the letter-count question.
C26_CountAskedOnce ==
    (pc = "acquire" /\ clues.letter_count # 0)
        => GetNextPrompt(clues) # HowManyLetters

\* C27: a level attempt that follows a successful one does not ask "What is
\* the password?": when run() is about to start a level after at least one
\* level was completed, the tracked current_level is greater than 0.
C27_PasswordOnlyOnFirstLevel ==
    (pc = "start" /\ level_count >= 1) => current_level > 0

\* C28: the list of question/answer pairs kept for the word generator is
\* empty when a level attempt starts: the step of run() that enters
\* _solve_level leaves merlin_responses empty, as it leaves the clue store.
C28_ResponsesStartEmpty ==
    [][pc = "start" => (merlin_responses' = <<>> /\ clues' = EmptyStore)]_vars

\* C29: for a prefix of a >= 1 and a suffix of b >= 1 letters and a count
\* n >= 1, a + b >= n holds exactly when a + b - max(0, a + b - n) >= n; on
\* every store with count, prefix and suffix known and no pinned letter,
\* get_next_prompt returns the no-further-question value exactly when
\* has_sufficient_letters returns true.
C29_DoneTestsAgree ==
    LET n == clues.letter_count
        a == Len(clues.first_letters)
        b == Len(clues.last_letters)
    IN  (n >= 1 /\ a >= 1 /\ b >= 1 /\ PinnedPositions(clues) = {})
            => /\ (a + b >= n) <=> (a + b - Max(0, a + b - n) >= n)
               /\ ret.op = "get_next_prompt"
                    => ((ret.prompt = None) <=> HasSufficientLetters(clues))
               /\ ret.op = "has_sufficient_letters"
                    => (ret.flag <=> (GetNextPrompt(clues) = None))
               /\ ret.op = "has_sufficient_letters"
                    => (ret.flag <=> (a + b >= n))

C29_Witness ==
    /\ ret.op = "has_sufficient_letters"
    /\ ret.flag
    /\ clues.letter_count = 5
    /\ Len(clues.first_letters) = 4
    /\ Len(clues.last_letters) = 2
    /\ PinnedPositions(clues) = {}
    /\ GetNextPrompt(clues) = None

\* C30: the sufficiency predicate of src/prompt_generator.py and the one of
\* src/src/hackmerlin/core/prompt_generator.py return the same boolean for
\* every clue store.
C30_VariantsAgree ==
    ret.op = "has_sufficient_letters"
        => (ret.flag = HasSufficientLettersTopLevel(clues))

=============================================================================
